---- MODULE Spec2Model ----
(***************************************************************************)
(* Icelander: the connection and event management layer over a reliable-   *)
(* UDP transport engine, and its background task scheduler.                *)
(*                                                                         *)
(*   SchedSpec / SchedLiveSpec  async::TaskScheduler (src/src/async.cpp)   *)
(*   HostSpec                   Host, Peer registry, event dispatch        *)
(*                              (src/src/host.cpp, event_dispatcher.cpp)   *)
(*   PacketSpec                 Packet ownership in send and broadcast     *)
(*                              (src/src/peer.cpp, host.cpp, packet.cpp)   *)
(*   DispatchSpec               handler registration, clearHandlers and    *)
(*                              the result of Host::service                *)
(*   ReaderSpec                 PacketReader (src/src/packet.cpp)          *)
(*   ServiceThreadSpec /        Host's background service thread and       *)
(*   ServiceThreadLiveSpec /    ~Host (src/src/host.cpp), with one or      *)
(*   ServiceRaceSpec            several application threads                *)
(*   FramingSpec / BuilderSpec  PacketBuilder, build() and the reader on   *)
(*                              the built packet (src/src/packet.cpp)      *)
(*   PeerSpec                   Peer over a null or live engine peer       *)
(*                              (src/src/peer.cpp, endpoint.cpp)           *)
(*   ConnectSpec                Host::connect with its failures, and the   *)
(*                              registry (src/src/host.cpp)                *)
(*   LibSpec                    Library (src/src/library.cpp)              *)
(*   LockSpec                   peersMutex_ around the registry and the    *)
(*                              dispatch of events (src/src/host.cpp)      *)
(*   OwnSpec                    Packet objects, their moves and the        *)
(*                              buffers they own (src/src/packet.cpp)      *)
(*   ReuseSpec                  connections that end, disconnect requests  *)
(*                              and reused engine peers (host.cpp,         *)
(*                              peer.cpp)                                  *)
(*   SurviveSpec                Peers used after their Host is destroyed   *)
(*                              (src/src/peer.cpp, Host::~Host)            *)
(***************************************************************************)
EXTENDS Integers, Sequences, FiniteSets, TLC

(***************************************************************************)
(* Bounds of the model.                                                    *)
(***************************************************************************)
\* largest value std::thread::hardware_concurrency() is taken to report
MaxHw == 2
\* number of start() calls that spawn a pool
MaxStarts == 2
\* number of tasks handed to schedule()
MaxTasks == 2
\* peer slots of the engine host (HostConfig::maxPeers)
MaxNative == 2
\* Peer wrapper objects that exist or are still referenced by peers_ at a time
MaxWrappers == 3
\* packet buffers created during a run
MaxBufs == 2
\* handlers registered during a run
MaxHandlers == 3
\* width of size_t in bits (64 in the build, reduced so that every value of a
\* length argument can be enumerated)
SizeBits == 5
\* largest packet a PacketReader is constructed on, in bytes
MaxData == 9
\* service threads a Host spawns during a run
MaxServiceThreads == 2
\* application threads that call startServiceThread / stopServiceThread
MaxAppThreads == 2
\* width of a byte in bits (8 in the build, reduced so that the value of a
\* uint64_t stays inside the model checker's integers)
ByteBits == 2
\* fields written to a PacketBuilder between two clear() calls
MaxFields == 4
\* largest PacketBuilder buffer, in bytes
MaxBuffer == 26
\* packets built during a run
MaxBuilt == 2
\* Transport Engine calls made through Peer objects during a run
MaxEngineCalls == 2
\* enet_initialize / enet_deinitialize calls made during a run
MaxLibCalls == 8
\* packets built during a run of the framing round trip
FramedPackets == 1
\* fields written between two clear() calls where the builder is cleared and
\* written again around its build() calls
ShortFields == 2
\* PacketBuilder calls made during a run
MaxBuilderCalls == 6

(***************************************************************************)
(* TaskScheduler state.                                                    *)
(***************************************************************************)
VARIABLES
    hwThreads,       \* value std::thread::hardware_concurrency() reports
    running_,        \* std::atomic<bool> running_
    workerThreads_,  \* std::vector<std::unique_ptr<std::thread>>, as thread ids
    taskQueue_,      \* std::queue<std::function<void()>>, as task ids
    queueMutex_,     \* holder of queueMutex_: 0 free, or a thread id
    cvWaiters,       \* threads blocked inside queueCv_.wait
    wpc,             \* position of every worker thread in workerLoop
    wtask,           \* local `task` of every worker (0: empty function)
    nextTid,         \* next fresh thread id
    cpc,             \* position of the thread that calls start()/stop()
    ci,              \* loop index of start()'s and stop()'s for loops
    lastOp,          \* the last start()/stop() call that returned, and how
    spc,             \* position of every schedule(t) call
    dequeued,        \* tasks in the order they were popped from taskQueue_
    finished         \* tasks whose call task() has returned

schedVars == <<hwThreads, running_, workerThreads_, taskQueue_, queueMutex_,
               cvWaiters, wpc, wtask, nextTid, cpc, ci, lastOp, spc, dequeued,
               finished>>

(***************************************************************************)
(* Host, Peer, Packet and EventDispatcher state.                           *)
(***************************************************************************)
VARIABLES
    peers_,              \* std::vector<std::weak_ptr<Peer>>, as wrapper ids
    wst,                 \* every Peer wrapper object: "free", "alive", "expired"
    wNative,             \* Peer::nativePeer_ of every live wrapper (0: null)
    appPeer,             \* the application's shared_ptr<Peer> variables
    evPeer,              \* peerWrapper / event.peerHandle inside processEvent
    econn,               \* the engine's state of every native peer
    svc,                 \* position of the thread inside service()
    ev,                  \* the ENetEvent service() is processing
    invoked,             \* handlers invoked for ev so far
    lastResult,          \* value the last service() call returned
    connectHandlers_,    \* EventDispatcher::connectHandlers_
    disconnectHandlers_, \* EventDispatcher::disconnectHandlers_
    receiveHandlers_,    \* EventDispatcher::receiveHandlers_
    channelHandlers_,    \* EventDispatcher::channelHandlers_
    bufState,            \* every ENetPacket buffer: who owns it
    appPkt,              \* the application's unique_ptr<Packet> (0: null)
    lastSend,            \* the last Peer::send / Host::broadcast call
    result,              \* `int result` of service(): what enet_host_service said
    cleared              \* clearHandlers() was called and nothing registered since

hostVars == <<peers_, wst, wNative, appPeer, evPeer, econn,
              svc, ev, invoked, lastResult, connectHandlers_,
              disconnectHandlers_, receiveHandlers_, channelHandlers_,
              bufState, appPkt, lastSend, result, cleared>>

(***************************************************************************)
(* PacketReader state.                                                     *)
(***************************************************************************)
VARIABLES
    data_,      \* PacketReader::data_ (Span<const uint8_t>), as a byte sequence
    position_,  \* PacketReader::position_ (size_t)
    lastRead    \* the last PacketReader call and what it did

readerVars == <<data_, position_, lastRead>>

(***************************************************************************)
(* Host service thread and Host lifetime.                                  *)
(***************************************************************************)
VARIABLES
    serviceThreadRunning_, \* std::atomic<bool> serviceThreadRunning_
    serviceThread_,        \* std::unique_ptr<std::thread>: a thread id, 0 null
    tst,                   \* position of every service thread
    joined,                \* std::thread objects that are not joinable any more
    callpc,                \* position of every caller of start/stopServiceThread
    newThread,             \* the std::thread a caller made and has not stored yet
    lastCall,              \* per caller: the last call that returned, and how
    dtor,                  \* the thread that runs Host::~Host (0: nobody)
    hostState,             \* who owns the Host: "alive", "orphan", "destroying",
                           \* "destroyed"
    nativeHost_,           \* the ENetHost behind nativeHost_: "live", "released"
    releases,              \* number of enet_host_destroy calls
    aborted                \* std::terminate was called

threadVars == <<serviceThreadRunning_, serviceThread_, tst, joined, callpc,
                newThread, lastCall, dtor, hostState, nativeHost_, releases,
                aborted>>

(***************************************************************************)
(* PacketBuilder, the Packets it builds, and the framing reads.            *)
(***************************************************************************)
VARIABLES
    byteOrder,  \* byte order of the machine: "little" or "big"
    buffer_,    \* PacketBuilder::buffer_ (std::vector<uint8_t>)
    written,    \* the fields written to buffer_ since it was last empty
    pkts,       \* the Packets build() returned, in the order of the calls
    rpkt,       \* the Packet the PacketReader was constructed on (0: none)
    readBack,   \* the values the framing reads returned so far
    pendingLen, \* a string length read and not yet used (-1: none)
    calls       \* number of PacketBuilder calls made so far

frameVars == <<byteOrder, buffer_, written, pkts, rpkt, readBack, pendingLen,
               calls>>

(***************************************************************************)
(* Peer objects used directly, and the engine peer behind them.            *)
(***************************************************************************)
VARIABLES
    nativePeer_,   \* Peer::nativePeer_ of every Peer object (0: nullptr)
    enetPeer,      \* the engine's ENetPeer: state, address, roundTripTime
    engineCalls,   \* the Transport Engine calls made through the Peer objects
    lastPeerCall   \* the last Peer call: object, operation, what it returned

peerVars == <<nativePeer_, enetPeer, engineCalls, lastPeerCall>>

(***************************************************************************)
(* Exceptions of Host::connect.                                            *)
(***************************************************************************)
VARIABLES
    thrown   \* the std::runtime_error Host::connect threw last, if any

connVars == <<thrown>>

(***************************************************************************)
(* Library.                                                                *)
(***************************************************************************)
VARIABLES
    initialized_,  \* Library::initialized_
    enetLog,       \* the enet_initialize / enet_deinitialize calls made
    lastLibCall    \* the last Library call and what it returned

libVars == <<initialized_, enetLog, lastLibCall>>

(***************************************************************************)
(* The peer-registry mutex.                                                *)
(***************************************************************************)
VARIABLES
    peersMutex_,  \* holder of Host::peersMutex_ ("none": free)
    ppc,          \* position of the servicing thread in processEvent
    pev,          \* type of the event processEvent was called with
    rop           \* per thread: the registry access it is making, if any

lockVars == <<peersMutex_, ppc, pev, rop>>

(***************************************************************************)
(* Packet objects and the buffers they own.                                *)
(***************************************************************************)
VARIABLES
    nativePacket_,  \* Packet::nativePacket_ of every Packet object (0: nullptr)
    pktAlive,       \* every Packet object: "none", "live", or "released"
                    \* (given up by unique_ptr::release, never destroyed)
    lastPktOp       \* the last Packet operation and what it did

ownVars == <<nativePacket_, pktAlive, lastPktOp>>

(***************************************************************************)
(* Connections that have ended, the disconnect requests made, and the uses *)
(* of Peer objects around the destruction of their Host.                   *)
(***************************************************************************)
VARIABLES
    ended,        \* the Peer wrappers whose connection has ended
    lastRequest,  \* the last Peer::disconnect* call: wrapper and kind
    lastUse       \* the last member called on a Peer the application holds:
                  \* the engine peer it used, what hostHandle() returned, and
                  \* whether the engine host had been released by then

epochVars == <<ended, lastRequest, lastUse>>

\* the other parts of the library
restVars == <<frameVars, peerVars, connVars, libVars, lockVars, ownVars,
              epochVars>>

\* what the steps of one part of the library leave alone
nonSchedVars == <<hostVars, readerVars, threadVars, restVars>>
nonHostVars == <<schedVars, readerVars, threadVars, restVars>>
nonReaderVars == <<schedVars, hostVars, threadVars, restVars>>
nonThreadVars == <<schedVars, hostVars, readerVars, restVars>>
coreVars == <<schedVars, hostVars, threadVars>>
nonFrameVars == <<coreVars, peerVars, connVars, libVars, lockVars, ownVars,
                  epochVars>>
nonPeerVars == <<coreVars, readerVars, frameVars, connVars, libVars, lockVars,
                 ownVars, epochVars>>
nonConnVars == <<schedVars, readerVars, threadVars, frameVars, peerVars,
                 libVars, lockVars, ownVars, epochVars>>
nonLibVars == <<coreVars, readerVars, frameVars, peerVars, connVars, lockVars,
                ownVars, epochVars>>
nonLockVars == <<coreVars, readerVars, frameVars, peerVars, connVars, libVars,
                 ownVars, epochVars>>
nonOwnVars == <<coreVars, readerVars, frameVars, peerVars, connVars, libVars,
                lockVars, epochVars>>

nonEpochVars == <<coreVars, readerVars, frameVars, peerVars, connVars,
                  libVars, lockVars, ownVars>>

vars == <<schedVars, hostVars, readerVars, threadVars, restVars>>

\* size_t threadCount = hwThreads > 1 ? hwThreads : 1;
ThreadCount(hw) == IF hw > 1 THEN hw ELSE 1

MaxTid == MaxStarts * ThreadCount(MaxHw)
Tids == 1..MaxTid
Tasks == 1..MaxTasks

Natives == 1..MaxNative
Wrappers == 1..MaxWrappers
Bufs == 1..MaxBufs
Handlers == 1..MaxHandlers
\* ChannelIdT values the model uses (HostConfig::maxChannels of 2)
Channels == {0, 1}
\* the application's variables of type std::shared_ptr<Peer>
Slots == {"a"}

\* values of enet_host_service: an event was returned / none was
EventStatus == {1}
NoEventStatus == {0, -1}
NoEvent == [type |-> "none", peer |-> 0, pkt |-> 0, channel |-> 0]
NoSend == [op |-> "none", pkt |-> 0, engineCall |-> FALSE, ret |-> FALSE]
NoRead == [op |-> "none", n |-> 0, ok |-> TRUE, oob |-> FALSE]

\* TaskScheduler(): nothing runs, nothing is queued
SchedIdle ==
    /\ running_ = FALSE
    /\ workerThreads_ = <<>>
    /\ taskQueue_ = <<>>
    /\ queueMutex_ = 0
    /\ cvWaiters = {}
    /\ wpc = [w \in Tids |-> "unborn"]
    /\ wtask = [w \in Tids |-> 0]
    /\ nextTid = 1
    /\ cpc = "idle"
    /\ ci = 0
    /\ lastOp = "none"
    /\ spc = [t \in Tasks |-> "idle"]
    /\ dequeued = <<>>
    /\ finished = {}

\* Host::Host: no peer known, no handler registered, no service() in progress
HostIdle ==
    /\ peers_ = <<>>
    /\ wst = [w \in Wrappers |-> "free"]
    /\ wNative = [w \in Wrappers |-> 0]
    /\ appPeer = [sl \in Slots |-> 0]
    /\ evPeer = 0
    /\ econn = [n \in Natives |-> "free"]
    /\ svc = "idle"
    /\ ev = NoEvent
    /\ invoked = <<>>
    /\ lastResult = 0
    /\ connectHandlers_ = <<>>
    /\ disconnectHandlers_ = <<>>
    /\ receiveHandlers_ = <<>>
    /\ channelHandlers_ = [c \in Channels |-> <<>>]
    /\ bufState = [b \in Bufs |-> "free"]
    /\ appPkt = 0
    /\ lastSend = NoSend
    /\ result = 0
    /\ cleared = FALSE

\* no PacketReader in use
ReaderIdle ==
    /\ data_ = <<>>
    /\ position_ = 0
    /\ lastRead = NoRead

\* service threads, and the threads of the application (negative ids)
STids == 1..MaxServiceThreads
AppThreads == {-a : a \in 1..MaxAppThreads}
Callers == AppThreads \cup STids
NoCall == [op |-> "none", noop |-> FALSE]

\* Host::Host: serviceThreadRunning_(false), no thread, the engine host live
ThreadIdle ==
    /\ serviceThreadRunning_ = FALSE
    /\ serviceThread_ = 0
    /\ tst = [t \in STids |-> "unborn"]
    /\ joined = {}
    /\ callpc = [c \in Callers |-> "idle"]
    /\ newThread = [c \in Callers |-> 0]
    /\ lastCall = [c \in Callers |-> NoCall]
    /\ dtor = 0
    /\ hostState = "alive"
    /\ nativeHost_ = "live"
    /\ releases = 0
    /\ aborted = FALSE

\* PacketBuilder(): an empty buffer_; no Packet built, no framing read made
FrameIdle ==
    /\ byteOrder = "little"
    /\ buffer_ = <<>>
    /\ written = <<>>
    /\ pkts = <<>>
    /\ rpkt = 0
    /\ readBack = <<>>
    /\ pendingLen = -1
    /\ calls = 0

\* Peer objects and the ENetPeer they may point to (handle 1)
PeerObjs == {1, 2}
\* ENetPeerState / PeerState
PeerStates == {"disconnected", "connecting", "acknowledgingConnect",
               "connectionPending", "connectionSucceeded", "connected",
               "disconnectLater", "disconnecting", "acknowledgingDisconnect",
               "zombie"}
\* ENetPeer::address of the remote peer, and ENetPeer::roundTripTime values
RemoteAddress == [host |-> 2, port |-> 7777]
Rtts == {0, 40}
NoPeerCall == [peer |-> 0, op |-> "none", engine |-> FALSE, ret |-> FALSE]

\* no Peer object holds a handle
PeerIdle ==
    /\ nativePeer_ = [p \in PeerObjs |-> 0]
    /\ enetPeer = [state |-> "disconnected", address |-> RemoteAddress,
                   roundTripTime |-> 0]
    /\ engineCalls = <<>>
    /\ lastPeerCall = NoPeerCall

NoThrow == [what |-> "none", engineCalled |-> FALSE]

\* no connect() has thrown
ConnIdle == thrown = NoThrow

NoLibCall == [op |-> "none", engine |-> FALSE, ret |-> FALSE]

\* static inline bool initialized_ = false
LibIdle ==
    /\ initialized_ = FALSE
    /\ enetLog = <<>>
    /\ lastLibCall = NoLibCall

\* the thread that calls service() and the other threads of the application
LockThreads == {"service", "app1", "app2"}
NoAccess == [op |-> "none", pc |-> "none"]

\* peersMutex_ free, no event being processed, nobody at the registry
LockIdle ==
    /\ peersMutex_ = "none"
    /\ ppc = "idle"
    /\ pev = "none"
    /\ rop = [t \in LockThreads |-> NoAccess]

\* the Packet objects the application works with
PktObjs == {1, 2}
NoPktOp == [op |-> "none", to |-> 0, from |-> 0, prev |-> 0, ret |-> TRUE]

\* no Packet object exists
OwnIdle ==
    /\ nativePacket_ = [p \in PktObjs |-> 0]
    /\ pktAlive = [p \in PktObjs |-> "none"]
    /\ lastPktOp = NoPktOp

NoRequest == [peer |-> 0, how |-> "none"]
NoUse == [peer |-> 0, op |-> "none", native |-> 0, host |-> FALSE, released |-> FALSE]

\* no connection has ended and nothing was requested
EpochIdle ==
    /\ ended = {}
    /\ lastRequest = NoRequest
    /\ lastUse = NoUse

\* the parts of the library a specification does not exercise
RestIdle ==
    /\ FrameIdle
    /\ PeerIdle
    /\ ConnIdle
    /\ LibIdle
    /\ LockIdle
    /\ OwnIdle
    /\ EpochIdle

SchedInit ==
    /\ hwThreads \in 0..MaxHw
    /\ SchedIdle
    /\ HostIdle
    /\ ReaderIdle
    /\ ThreadIdle
    /\ RestIdle

HostInit ==
    /\ hwThreads = 1
    /\ SchedIdle
    /\ HostIdle
    /\ ReaderIdle
    /\ ThreadIdle
    /\ RestIdle

(***************************************************************************)
(* schedule(task): push under the lock, then notify_one outside it.        *)
(***************************************************************************)
SchedulePush(t) ==
    /\ spc[t] = "idle"
    /\ queueMutex_ = 0
    /\ taskQueue_' = Append(taskQueue_, t)
    /\ spc' = [spc EXCEPT ![t] = "notify"]
    /\ UNCHANGED <<hwThreads, running_, workerThreads_, queueMutex_, cvWaiters,
                   wpc, wtask, nextTid, cpc, ci, lastOp, dequeued, finished,
                   nonSchedVars>>

\* schedule() without the notify_one
ScheduleNotify_NoNotify(t) ==
    /\ spc[t] = "notify"
    /\ spc' = [spc EXCEPT ![t] = "returned"]
    /\ UNCHANGED <<hwThreads, running_, workerThreads_, taskQueue_, queueMutex_,
                   cvWaiters, wpc, wtask, nextTid, cpc, ci, lastOp, dequeued,
                   finished,
                   nonSchedVars>>

\* queueCv_.notify_one(): wakes one thread blocked in wait, if there is one
ScheduleNotify(t) ==
    /\ spc[t] = "notify"
    /\ spc' = [spc EXCEPT ![t] = "returned"]
    /\ IF cvWaiters = {}
         THEN UNCHANGED <<cvWaiters, wpc>>
         ELSE \E w \in cvWaiters :
                /\ cvWaiters' = cvWaiters \ {w}
                /\ wpc' = [wpc EXCEPT ![w] = "wakeup"]
    /\ UNCHANGED <<hwThreads, running_, workerThreads_, taskQueue_, queueMutex_,
                   wtask, nextTid, cpc, ci, lastOp, dequeued, finished,
                   nonSchedVars>>

(***************************************************************************)
(* start()                                                                 *)
(***************************************************************************)
StartCall ==
    /\ cpc = "idle"
    /\ running_ \/ nextTid + ThreadCount(hwThreads) - 1 <= MaxTid
    /\ cpc' = "start_check"
    /\ UNCHANGED <<hwThreads, running_, workerThreads_, taskQueue_, queueMutex_,
                   cvWaiters, wpc, wtask, nextTid, ci, lastOp, spc, dequeued,
                   finished,
                   nonSchedVars>>

\* start() without the `if (running_) return;`
StartCheck_NoGuard ==
    /\ cpc = "start_check"
    /\ running_' = TRUE
    /\ cpc' = "start_spawn"
    /\ ci' = 0
    /\ UNCHANGED <<hwThreads, workerThreads_, taskQueue_, queueMutex_, cvWaiters,
                   wpc, wtask, nextTid, lastOp, spc, dequeued, finished,
                   nonSchedVars>>

\* if (running_) return;   running_ = true;
StartCheck ==
    /\ cpc = "start_check"
    /\ IF running_
         THEN /\ cpc' = "idle"
              /\ lastOp' = "start_noop"
              /\ UNCHANGED <<running_, ci>>
         ELSE /\ running_' = TRUE
              /\ cpc' = "start_spawn"
              /\ ci' = 0
              /\ UNCHANGED lastOp
    /\ UNCHANGED <<hwThreads, workerThreads_, taskQueue_, queueMutex_, cvWaiters,
                   wpc, wtask, nextTid, spc, dequeued, finished,
                   nonSchedVars>>

\* for (i = 0; i < threadCount; ++i) workerThreads_.emplace_back(new thread)
StartSpawn ==
    /\ cpc = "start_spawn"
    /\ IF ci < ThreadCount(hwThreads)
         THEN /\ workerThreads_' = Append(workerThreads_, nextTid)
              /\ wpc' = [wpc EXCEPT ![nextTid] = "loop"]
              /\ nextTid' = nextTid + 1
              /\ ci' = ci + 1
              /\ UNCHANGED <<cpc, lastOp>>
         ELSE /\ cpc' = "idle"
              /\ lastOp' = "start"
              /\ UNCHANGED <<workerThreads_, wpc, nextTid, ci>>
    /\ UNCHANGED <<hwThreads, running_, taskQueue_, queueMutex_, cvWaiters,
                   wtask, spc, dequeued, finished,
                   nonSchedVars>>

(***************************************************************************)
(* stop()                                                                  *)
(***************************************************************************)
StopCall ==
    /\ cpc = "idle"
    /\ cpc' = "stop_check"
    /\ UNCHANGED <<hwThreads, running_, workerThreads_, taskQueue_, queueMutex_,
                   cvWaiters, wpc, wtask, nextTid, ci, lastOp, spc, dequeued,
                   finished,
                   nonSchedVars>>

\* if (!running_) return;   running_ = false;
StopCheck ==
    /\ cpc = "stop_check"
    /\ IF ~running_
         THEN /\ cpc' = "idle"
              /\ lastOp' = "stop_noop"
              /\ UNCHANGED running_
         ELSE /\ running_' = FALSE
              /\ cpc' = "stop_notify"
              /\ UNCHANGED lastOp
    /\ UNCHANGED <<hwThreads, workerThreads_, taskQueue_, queueMutex_, cvWaiters,
                   wpc, wtask, nextTid, ci, spc, dequeued, finished,
                   nonSchedVars>>

\* queueCv_.notify_all(): wakes every thread blocked in wait (queueMutex_ not held)
StopNotify ==
    /\ cpc = "stop_notify"
    /\ wpc' = [w \in Tids |-> IF w \in cvWaiters THEN "wakeup" ELSE wpc[w]]
    /\ cvWaiters' = {}
    /\ cpc' = "stop_join"
    /\ ci' = 1
    /\ UNCHANGED <<hwThreads, running_, workerThreads_, taskQueue_, queueMutex_,
                   wtask, nextTid, lastOp, spc, dequeued, finished,
                   nonSchedVars>>

\* stop() that walks workerThreads_ without joining
StopJoin_NoJoin ==
    /\ cpc = "stop_join"
    /\ IF ci <= Len(workerThreads_)
         THEN /\ ci' = ci + 1
              /\ UNCHANGED <<workerThreads_, cpc, lastOp>>
         ELSE /\ workerThreads_' = <<>>
              /\ cpc' = "idle"
              /\ lastOp' = "stop"
              /\ UNCHANGED ci
    /\ UNCHANGED <<hwThreads, running_, taskQueue_, queueMutex_, cvWaiters,
                   wpc, wtask, nextTid, spc, dequeued, finished,
                   nonSchedVars>>

\* stop() without workerThreads_.clear()
StopJoin_NoClear ==
    /\ cpc = "stop_join"
    /\ IF ci <= Len(workerThreads_)
         THEN /\ wpc[workerThreads_[ci]] \in {"exited", "joined"}
              /\ wpc' = [wpc EXCEPT ![workerThreads_[ci]] = "joined"]
              /\ ci' = ci + 1
              /\ UNCHANGED <<workerThreads_, cpc, lastOp>>
         ELSE /\ cpc' = "idle"
              /\ lastOp' = "stop"
              /\ UNCHANGED <<workerThreads_, wpc, ci>>
    /\ UNCHANGED <<hwThreads, running_, taskQueue_, queueMutex_, cvWaiters,
                   wtask, nextTid, spc, dequeued, finished,
                   nonSchedVars>>

\* for (auto& thread : workerThreads_) thread->join();   workerThreads_.clear();
StopJoin ==
    /\ cpc = "stop_join"
    /\ IF ci <= Len(workerThreads_)
         THEN /\ wpc[workerThreads_[ci]] = "exited"
              /\ wpc' = [wpc EXCEPT ![workerThreads_[ci]] = "joined"]
              /\ ci' = ci + 1
              /\ UNCHANGED <<workerThreads_, cpc, lastOp>>
         ELSE /\ workerThreads_' = <<>>
              /\ cpc' = "idle"
              /\ lastOp' = "stop"
              /\ UNCHANGED <<wpc, ci>>
    /\ UNCHANGED <<hwThreads, running_, taskQueue_, queueMutex_, cvWaiters,
                   wtask, nextTid, spc, dequeued, finished,
                   nonSchedVars>>

(***************************************************************************)
(* workerLoop(), one action per step of thread w                           *)
(***************************************************************************)
\* while (running_)
WorkerLoopTest(w) ==
    /\ wpc[w] = "loop"
    /\ wpc' = [wpc EXCEPT ![w] = IF running_ THEN "lock" ELSE "exited"]
    /\ UNCHANGED <<hwThreads, running_, workerThreads_, taskQueue_, queueMutex_,
                   cvWaiters, wtask, nextTid, cpc, ci, lastOp, spc, dequeued,
                   finished,
                   nonSchedVars>>

\* std::unique_lock<std::mutex> lock(queueMutex_);
WorkerLock(w) ==
    /\ wpc[w] = "lock"
    /\ queueMutex_ = 0
    /\ queueMutex_' = w
    /\ wpc' = [wpc EXCEPT ![w] = "pred"]
    /\ UNCHANGED <<hwThreads, running_, workerThreads_, taskQueue_, cvWaiters,
                   wtask, nextTid, cpc, ci, lastOp, spc, dequeued, finished,
                   nonSchedVars>>

\* the predicate of queueCv_.wait: !taskQueue_.empty() || !running_
WorkerPredicate(w) ==
    /\ wpc[w] = "pred"
    /\ wpc' = [wpc EXCEPT ![w] =
                 IF taskQueue_ # <<>> \/ ~running_ THEN "check" ELSE "prewait"]
    /\ UNCHANGED <<hwThreads, running_, workerThreads_, taskQueue_, queueMutex_,
                   cvWaiters, wtask, nextTid, cpc, ci, lastOp, spc, dequeued,
                   finished,
                   nonSchedVars>>

\* the predicate was false: wait() releases the mutex and blocks, atomically
WorkerWait(w) ==
    /\ wpc[w] = "prewait"
    /\ queueMutex_' = 0
    /\ cvWaiters' = cvWaiters \cup {w}
    /\ wpc' = [wpc EXCEPT ![w] = "wait"]
    /\ UNCHANGED <<hwThreads, running_, workerThreads_, taskQueue_, wtask,
                   nextTid, cpc, ci, lastOp, spc, dequeued, finished,
                   nonSchedVars>>

\* a condition variable may wake a waiter without any notify
WorkerSpuriousWake(w) ==
    /\ wpc[w] = "wait"
    /\ w \in cvWaiters
    /\ cvWaiters' = cvWaiters \ {w}
    /\ wpc' = [wpc EXCEPT ![w] = "wakeup"]
    /\ UNCHANGED <<hwThreads, running_, workerThreads_, taskQueue_, queueMutex_,
                   wtask, nextTid, cpc, ci, lastOp, spc, dequeued, finished,
                   nonSchedVars>>

\* a woken waiter re-acquires the mutex and evaluates the predicate again
WorkerWake(w) ==
    /\ wpc[w] = "wakeup"
    /\ queueMutex_ = 0
    /\ queueMutex_' = w
    /\ wpc' = [wpc EXCEPT ![w] = "pred"]
    /\ UNCHANGED <<hwThreads, running_, workerThreads_, taskQueue_, cvWaiters,
                   wtask, nextTid, cpc, ci, lastOp, spc, dequeued, finished,
                   nonSchedVars>>

\* if (!running_) break;  leaving the locked block releases the mutex.
\* running_ is an atomic that stop() writes without the mutex, so it may
\* change between this test and the statements that follow it
WorkerCheck(w) ==
    /\ wpc[w] = "check"
    /\ IF ~running_
         THEN /\ wpc' = [wpc EXCEPT ![w] = "exited"]
              /\ queueMutex_' = 0
         ELSE /\ wpc' = [wpc EXCEPT ![w] = "take"]
              /\ UNCHANGED queueMutex_
    /\ UNCHANGED <<hwThreads, running_, workerThreads_, taskQueue_, cvWaiters,
                   wtask, nextTid, cpc, ci, lastOp, spc, dequeued, finished,
                   nonSchedVars>>

\* workerLoop that takes front() and leaves it in the queue
WorkerTake_NoPop(w) ==
    /\ wpc[w] = "take"
    /\ queueMutex_' = 0
    /\ IF taskQueue_ # <<>>
           THEN /\ wtask' = [wtask EXCEPT ![w] = Head(taskQueue_)]
                /\ dequeued' = Append(dequeued, Head(taskQueue_))
                /\ wpc' = [wpc EXCEPT ![w] = "run"]
           ELSE /\ wpc' = [wpc EXCEPT ![w] = "loop"]
                /\ UNCHANGED <<wtask, dequeued>>
    /\ UNCHANGED <<hwThreads, running_, workerThreads_, taskQueue_, cvWaiters,
                   nextTid, cpc, ci, lastOp, spc, finished,
                   nonSchedVars>>

\* workerLoop that takes the task pushed last
WorkerTake_TakesLast(w) ==
    /\ wpc[w] = "take"
    /\ queueMutex_' = 0
    /\ IF taskQueue_ # <<>>
           THEN /\ wtask' = [wtask EXCEPT ![w] = taskQueue_[Len(taskQueue_)]]
                /\ taskQueue_' = SubSeq(taskQueue_, 1, Len(taskQueue_) - 1)
                /\ dequeued' = Append(dequeued, taskQueue_[Len(taskQueue_)])
                /\ wpc' = [wpc EXCEPT ![w] = "run"]
           ELSE /\ wpc' = [wpc EXCEPT ![w] = "loop"]
                /\ UNCHANGED <<taskQueue_, wtask, dequeued>>
    /\ UNCHANGED <<hwThreads, running_, workerThreads_, cvWaiters, nextTid, cpc,
                   ci, lastOp, spc, finished,
                   nonSchedVars>>

\* if (!taskQueue_.empty()) { task = front(); pop(); }  and the end of the
\* locked block
WorkerTake(w) ==
    /\ wpc[w] = "take"
    /\ queueMutex_' = 0
    /\ IF taskQueue_ # <<>>
           THEN /\ wtask' = [wtask EXCEPT ![w] = Head(taskQueue_)]
                /\ taskQueue_' = Tail(taskQueue_)
                /\ dequeued' = Append(dequeued, Head(taskQueue_))
                /\ wpc' = [wpc EXCEPT ![w] = "run"]
           ELSE /\ wpc' = [wpc EXCEPT ![w] = "loop"]
                /\ UNCHANGED <<taskQueue_, wtask, dequeued>>
    /\ UNCHANGED <<hwThreads, running_, workerThreads_, cvWaiters, nextTid, cpc,
                   ci, lastOp, spc, finished,
                   nonSchedVars>>

\* if (task) task();  the task returns
WorkerRun(w) ==
    /\ wpc[w] = "run"
    /\ finished' = finished \cup {wtask[w]}
    /\ wtask' = [wtask EXCEPT ![w] = 0]
    /\ wpc' = [wpc EXCEPT ![w] = "loop"]
    /\ UNCHANGED <<hwThreads, running_, workerThreads_, taskQueue_, queueMutex_,
                   cvWaiters, nextTid, cpc, ci, lastOp, spc, dequeued,
                   nonSchedVars>>

\* every step thread w takes by itself (a spurious wake-up is not one)
WorkerStep(w) ==
    \/ WorkerLoopTest(w)
    \/ WorkerLock(w)
    \/ WorkerPredicate(w)
    \/ WorkerWait(w)
    \/ WorkerWake(w)
    \/ WorkerCheck(w)
    \/ WorkerTake(w)
    \/ WorkerRun(w)

ControllerProgress ==
    \/ StartCheck
    \/ StartSpawn
    \/ StopCheck
    \/ StopNotify
    \/ StopJoin

SchedNext ==
    \/ \E t \in Tasks : SchedulePush(t)
    \/ \E t \in Tasks : ScheduleNotify(t)
    \/ StartCall
    \/ StartCheck
    \/ StartSpawn
    \/ StopCall
    \/ StopCheck
    \/ StopNotify
    \/ StopJoin
    \/ \E w \in Tids : WorkerLoopTest(w)
    \/ \E w \in Tids : WorkerLock(w)
    \/ \E w \in Tids : WorkerPredicate(w)
    \/ \E w \in Tids : WorkerWait(w)
    \/ \E w \in Tids : WorkerSpuriousWake(w)
    \/ \E w \in Tids : WorkerWake(w)
    \/ \E w \in Tids : WorkerCheck(w)
    \/ \E w \in Tids : WorkerTake(w)
    \/ \E w \in Tids : WorkerRun(w)

SchedSpec == SchedInit /\ [][SchedNext]_vars

\* Fair thread scheduling: a thread that can keep taking a step eventually
\* takes one, and a call that has begun runs on.  Nothing obliges the
\* application to call schedule(), start() or stop(), nor the condition
\* variable to wake a waiter spuriously.
SchedFairness ==
    /\ \A w \in Tids : WF_vars(WorkerStep(w))
    /\ \A t \in Tasks : WF_vars(ScheduleNotify(t))
    /\ WF_vars(ControllerProgress)

SchedLiveSpec == SchedInit /\ [][SchedNext]_vars /\ SchedFairness

(***************************************************************************)
(* Host, Peer, Packet, EventDispatcher                                     *)
(***************************************************************************)
Range(seq) == {seq[i] : i \in 1..Len(seq)}
Lowest(S) == CHOOSE x \in S : \A y \in S : x <= y

\* use_count of wrapper w when the application holds ap and processEvent
\* holds evp
RefCount(w, ap, evp) ==
    Cardinality({sl \in Slots : ap[sl] = w}) + (IF evp = w THEN 1 ELSE 0)

\* shared_ptr semantics: the Peer object is destroyed when its last strong
\* reference goes, whatever peers_ (weak) holds; an id is free again once
\* the object is gone and no weak entry names it
Settle(st, ap, evp, reg) ==
    [w \in Wrappers |->
       IF st[w] = "alive" /\ RefCount(w, ap, evp) = 0
         THEN (IF w \in Range(reg) THEN "expired" ELSE "free")
         ELSE IF st[w] = "expired" /\ w \notin Range(reg) THEN "free"
         ELSE st[w]]

NativeOf(st, nat) == [w \in Wrappers |-> IF st[w] = "alive" THEN nat[w] ELSE 0]

\* weak_ptr::expired() / weak_ptr::lock() == nullptr
Expired(w) == wst[w] # "alive"

\* Host::getPeers: the entries that lock(), in order; the others are erased
GetPeersResult_NoExpiryTest(reg) == reg

GetPeersResult(reg) == SelectSeq(reg, LAMBDA w : ~Expired(w))

\* Host::peerCount
PeerCount_Size == Len(peers_)

\* a peerCount that counts the connected peers only
PeerCount_ConnectedOnly ==
    Cardinality({i \in 1..Len(peers_) :
                   /\ ~Expired(peers_[i])
                   /\ wNative[peers_[i]] # 0
                   /\ econn[wNative[peers_[i]]] = "connected"})

PeerCount == Cardinality({i \in 1..Len(peers_) : ~Expired(peers_[i])})

\* Host::findPeerByNative: first live wrapper whose nativeHandle() is n, or null
FindPeerByNative(n) ==
    LET peers == GetPeersResult(peers_)
        hits == {i \in 1..Len(peers) : wNative[peers[i]] = n}
    IN IF hits = {} THEN 0 ELSE peers[Lowest(hits)]

\* dispatchReceive walking the handlers of every channel
HandlersFor_AllChannels(e) ==
    CASE e.type = "connect" -> connectHandlers_
      [] e.type = "disconnect" -> disconnectHandlers_
      [] e.type = "receive" ->
           receiveHandlers_ \o channelHandlers_[0] \o channelHandlers_[1]
      [] OTHER -> <<>>

\* the handlers EventDispatcher::dispatch* walks for event e, in order
HandlersFor(e) ==
    CASE e.type = "connect" -> connectHandlers_
      [] e.type = "disconnect" -> disconnectHandlers_
      [] e.type = "receive" -> receiveHandlers_ \o channelHandlers_[e.channel]
      [] OTHER -> <<>>

\* a name for the k-th handler registered in a list: the closures are opaque,
\* so a handler is known by the list it was pushed to and its place in it
HandlerId(kind, c, k) == <<kind, c, k>>

Registered ==
    Len(connectHandlers_) + Len(disconnectHandlers_) + Len(receiveHandlers_)
      + Len(channelHandlers_[0]) + Len(channelHandlers_[1])

\* enet_packet_destroy on buffer b
Destroy(bs, b) ==
    [bs EXCEPT ![b] = IF bs[b] \in {"destroyed", "double"} THEN "double" ELSE "destroyed"]

FreeWrappers == {w \in Wrappers : wst[w] = "free"}
FreeBufs == {b \in Bufs : bufState[b] = "free"}
FreeNatives == {n \in Natives : econn[n] = "free"}

(***************************************************************************)
(* EventDispatcher registration                                            *)
(***************************************************************************)
OnConnect ==
    /\ svc = "idle"
    /\ Registered < MaxHandlers
    /\ connectHandlers_' = Append(connectHandlers_, HandlerId("connect", 0, Len(connectHandlers_) + 1))
    /\ cleared' = FALSE
    /\ UNCHANGED <<peers_, wst, wNative, appPeer, evPeer,
                   econn, svc, ev, invoked, lastResult, disconnectHandlers_,
                   receiveHandlers_, channelHandlers_, bufState, appPkt,
                   lastSend, result, nonHostVars>>

OnDisconnect ==
    /\ svc = "idle"
    /\ Registered < MaxHandlers
    /\ disconnectHandlers_' =
         Append(disconnectHandlers_, HandlerId("disconnect", 0, Len(disconnectHandlers_) + 1))
    /\ cleared' = FALSE
    /\ UNCHANGED <<peers_, wst, wNative, appPeer, evPeer,
                   econn, svc, ev, invoked, lastResult, connectHandlers_,
                   receiveHandlers_, channelHandlers_, bufState, appPkt,
                   lastSend, result, nonHostVars>>

OnReceive ==
    /\ svc = "idle"
    /\ Registered < MaxHandlers
    /\ receiveHandlers_' = Append(receiveHandlers_, HandlerId("receive", 0, Len(receiveHandlers_) + 1))
    /\ cleared' = FALSE
    /\ UNCHANGED <<peers_, wst, wNative, appPeer, evPeer,
                   econn, svc, ev, invoked, lastResult, connectHandlers_,
                   disconnectHandlers_, channelHandlers_, bufState, appPkt,
                   lastSend, result, nonHostVars>>

OnReceiveChannel(c) ==
    /\ svc = "idle"
    /\ Registered < MaxHandlers
    /\ channelHandlers_' =
         [channelHandlers_ EXCEPT ![c] = Append(@, HandlerId("channel", c, Len(@) + 1))]
    /\ cleared' = FALSE
    /\ UNCHANGED <<peers_, wst, wNative, appPeer, evPeer,
                   econn, svc, ev, invoked, lastResult, connectHandlers_,
                   disconnectHandlers_, receiveHandlers_, bufState, appPkt,
                   lastSend, result, nonHostVars>>

\* dispatcher.clearHandlers()
ClearHandlers_KeepsChannel ==
    /\ svc = "idle"
    /\ connectHandlers_' = <<>>
    /\ disconnectHandlers_' = <<>>
    /\ receiveHandlers_' = <<>>
    /\ cleared' = TRUE
    /\ UNCHANGED <<peers_, wst, wNative, appPeer, evPeer,
                   econn, svc, ev, invoked, lastResult, channelHandlers_,
                   bufState, appPkt, lastSend, result, nonHostVars>>

ClearHandlers ==
    /\ svc = "idle"
    /\ connectHandlers_' = <<>>
    /\ disconnectHandlers_' = <<>>
    /\ receiveHandlers_' = <<>>
    /\ channelHandlers_' = [c \in Channels |-> <<>>]
    /\ cleared' = TRUE
    /\ UNCHANGED <<peers_, wst, wNative, appPeer, evPeer,
                   econn, svc, ev, invoked, lastResult, bufState, appPkt,
                   lastSend, result, nonHostVars>>

(***************************************************************************)
(* Host::connect, getPeers and the application's Peer references           *)
(***************************************************************************)
\* what host->connect(endpoint) does to the Host, its result being stored in
\* appPeer[sl]: the engine takes its first free peer
Connect(sl) ==
    /\ appPeer[sl] = 0
    /\ FreeNatives # {}
    /\ FreeWrappers # {}
    /\ LET n == Lowest(FreeNatives)
           w == Lowest(FreeWrappers)
           ap == [appPeer EXCEPT ![sl] = w]
           reg == Append(peers_, w)
           st == Settle([wst EXCEPT ![w] = "alive"], ap, evPeer, reg)
       IN /\ econn' = [econn EXCEPT ![n] = "pending"]
          /\ peers_' = reg
          /\ appPeer' = ap
          /\ wst' = st
          /\ wNative' = NativeOf(st, [wNative EXCEPT ![w] = n])
    /\ UNCHANGED <<evPeer, svc, ev, invoked, lastResult,
                   connectHandlers_, disconnectHandlers_, receiveHandlers_,
                   channelHandlers_, bufState, appPkt, lastSend, result, cleared>>

\* appPeer[sl] = host->connect(endpoint), appPeer[sl] being empty
HostConnect(sl) ==
    /\ Connect(sl)
    /\ UNCHANGED nonHostVars

\* the ways host->connect(endpoint) fails: Endpoint::toEnetAddress throws when
\* enet_address_set_host refuses the name, connect throws when
\* enet_host_connect returns null
ConnectFailures == {"resolve", "allocate"}
ConnectError(why) ==
    IF why = "resolve" THEN "Failed to resolve hostname"
                       ELSE "Failed to initiate connection"

\* a connect() that asks the engine for a peer before it resolves the name
HostConnectFail_ConnectsFirst(sl, why) ==
    /\ appPeer[sl] = 0
    /\ FreeNatives # {}
    /\ econn' = [econn EXCEPT ![Lowest(FreeNatives)] = "pending"]
    /\ thrown' = [what |-> ConnectError(why), engineCalled |-> TRUE]
    /\ UNCHANGED <<peers_, wst, wNative, appPeer, evPeer, svc, ev, invoked,
                   lastResult, connectHandlers_, disconnectHandlers_,
                   receiveHandlers_, channelHandlers_, bufState, appPkt,
                   lastSend, result, cleared, nonConnVars>>

\* appPeer[sl] = host->connect(endpoint) throwing: the name does not resolve
\* (the engine is not asked), or the engine has no peer to give (always so
\* when every peer slot is taken); appPeer[sl] is not assigned
HostConnectFail(sl, why) ==
    /\ appPeer[sl] = 0
    /\ thrown' = [what |-> ConnectError(why), engineCalled |-> why = "allocate"]
    /\ UNCHANGED <<hostVars, nonConnVars>>

\* the application resets one of its shared_ptr<Peer>
AppDropPeer(sl) ==
    /\ appPeer[sl] # 0
    /\ LET ap == [appPeer EXCEPT ![sl] = 0]
           st == Settle(wst, ap, evPeer, peers_)
       IN /\ appPeer' = ap
          /\ wst' = st
          /\ wNative' = NativeOf(st, wNative)
    /\ UNCHANGED <<peers_, evPeer, econn, svc, ev, invoked,
                   lastResult, connectHandlers_, disconnectHandlers_,
                   receiveHandlers_, channelHandlers_, bufState, appPkt,
                   lastSend, result, cleared, nonHostVars>>

\* host->getPeers(): expired entries are erased; the caller looks at the
\* vector and keeps element `pick` of it in appPeer[sl] (pick = 0: none)
GetPeers(sl, pick) ==
    /\ LET res == GetPeersResult(peers_)
       IN /\ pick \in 0..Len(res)
          /\ LET ap == IF pick = 0 THEN appPeer
                                   ELSE [appPeer EXCEPT ![sl] = res[pick]]
                 st == Settle(wst, ap, evPeer, res)
             IN /\ peers_' = res
                /\ appPeer' = ap
                /\ wst' = st
                /\ wNative' = NativeOf(st, wNative)
    /\ UNCHANGED <<evPeer, econn, svc, ev, invoked, lastResult,
                   connectHandlers_, disconnectHandlers_, receiveHandlers_,
                   channelHandlers_, bufState, appPkt, lastSend, result, cleared, nonHostVars>>

(***************************************************************************)
(* Host::service, Host::processEvent, EventDispatcher::dispatch*           *)
(***************************************************************************)
\* service() answering 0 for an engine error
ServiceNoEvent_ZeroOnError(r) ==
    /\ svc = "idle"
    /\ result' = r
    /\ lastResult' = IF r < 0 THEN 0 ELSE r
    /\ UNCHANGED <<peers_, wst, wNative, appPeer, evPeer,
                   econn, svc, ev, invoked, connectHandlers_,
                   disconnectHandlers_, receiveHandlers_, channelHandlers_,
                   bufState, appPkt, lastSend, cleared, nonHostVars>>

\* enet_host_service returns 0 (no event) or a negative value (error)
ServiceNoEvent(r) ==
    /\ svc = "idle"
    /\ result' = r
    /\ lastResult' = r
    /\ UNCHANGED <<peers_, wst, wNative, appPeer, evPeer,
                   econn, svc, ev, invoked, connectHandlers_,
                   disconnectHandlers_, receiveHandlers_, channelHandlers_,
                   bufState, appPkt, lastSend, cleared, nonHostVars>>

\* what service() does with ENET_EVENT_TYPE_CONNECT for native peer n: a new
\* wrapper is made and pushed
ConnectEvent(n) ==
    /\ svc = "idle"
    /\ econn[n] \in {"free", "pending"}
    /\ FreeWrappers # {}
    /\ LET w == Lowest(FreeWrappers)
       IN /\ wst' = [wst EXCEPT ![w] = "alive"]
          /\ wNative' = [wNative EXCEPT ![w] = n]
          /\ peers_' = Append(peers_, w)
          /\ evPeer' = w
    /\ econn' = [econn EXCEPT ![n] = "connected"]
    /\ ev' = [type |-> "connect", peer |-> n, pkt |-> 0, channel |-> 0]
    /\ invoked' = <<>>
    /\ svc' = "dispatch"
    /\ result' \in EventStatus
    /\ UNCHANGED <<appPeer, lastResult, connectHandlers_,
                   disconnectHandlers_, receiveHandlers_, channelHandlers_,
                   bufState, appPkt, lastSend, cleared>>

\* ENET_EVENT_TYPE_CONNECT for native peer n
ServiceConnect(n) ==
    /\ ConnectEvent(n)
    /\ UNCHANGED nonHostVars

\* what processEvent does for a DISCONNECT or RECEIVE event on native peer n
\* before it dispatches: findPeerByNative(event.peer), which prunes peers_
ResolvePeer(n) ==
    LET found == FindPeerByNative(n)
        reg == GetPeersResult(peers_)
        st == Settle(wst, appPeer, found, reg)
    IN /\ peers_' = reg
       /\ evPeer' = found
       /\ wst' = st
       /\ wNative' = NativeOf(st, wNative)
       /\ svc' = IF found # 0 THEN "dispatch" ELSE "skip"

\* a Disconnect event taken up while an earlier event is being dispatched
ServiceDisconnect_Reentrant(n) ==
    /\ econn[n] \in {"pending", "connected"}
    /\ econn' = [econn EXCEPT ![n] = "free"]
    /\ ev' = [type |-> "disconnect", peer |-> n, pkt |-> 0, channel |-> 0]
    /\ invoked' = <<>>
    /\ ResolvePeer(n)
    /\ result' \in EventStatus
    /\ UNCHANGED <<appPeer, lastResult, connectHandlers_,
                   disconnectHandlers_, receiveHandlers_, channelHandlers_,
                   bufState, appPkt, lastSend, cleared, nonHostVars>>

\* what service() does with ENET_EVENT_TYPE_DISCONNECT for native peer n
DisconnectEvent(n) ==
    /\ svc = "idle"
    /\ econn[n] \in {"pending", "connected"}
    /\ econn' = [econn EXCEPT ![n] = "free"]
    /\ ev' = [type |-> "disconnect", peer |-> n, pkt |-> 0, channel |-> 0]
    /\ invoked' = <<>>
    /\ ResolvePeer(n)
    /\ result' \in EventStatus
    /\ UNCHANGED <<appPeer, lastResult, connectHandlers_,
                   disconnectHandlers_, receiveHandlers_, channelHandlers_,
                   bufState, appPkt, lastSend, cleared>>

\* ENET_EVENT_TYPE_DISCONNECT for native peer n
ServiceDisconnect(n) ==
    /\ DisconnectEvent(n)
    /\ UNCHANGED nonHostVars

\* ENET_EVENT_TYPE_RECEIVE for native peer n on channel c, with a fresh packet
ServiceReceive(n, c) ==
    /\ svc = "idle"
    /\ econn[n] = "connected"
    /\ FreeBufs # {}
    /\ LET b == Lowest(FreeBufs)
       IN /\ bufState' = [bufState EXCEPT ![b] = "event"]
          /\ ev' = [type |-> "receive", peer |-> n, pkt |-> b, channel |-> c]
    /\ invoked' = <<>>
    /\ ResolvePeer(n)
    /\ result' \in EventStatus
    /\ UNCHANGED <<appPeer, econn, lastResult,
                   connectHandlers_, disconnectHandlers_, receiveHandlers_,
                   channelHandlers_, appPkt, lastSend, cleared, nonHostVars>>

\* the handler lists walked from the back
DispatchNext_Reverse(keep) ==
    /\ svc = "dispatch"
    /\ Len(invoked) < Len(HandlersFor(ev))
    /\ invoked' = Append(invoked, HandlersFor(ev)[Len(HandlersFor(ev)) - Len(invoked)])
    /\ LET ap == IF keep \in Slots THEN [appPeer EXCEPT ![keep] = evPeer]
                                   ELSE appPeer
           st == Settle(wst, ap, evPeer, peers_)
       IN /\ appPeer' = ap
          /\ wst' = st
          /\ wNative' = NativeOf(st, wNative)
    /\ UNCHANGED <<peers_, evPeer, econn, svc, ev,
                   lastResult, connectHandlers_, disconnectHandlers_,
                   receiveHandlers_, channelHandlers_, bufState, appPkt,
                   lastSend, result, cleared, nonHostVars>>

\* the next handler of the list is called; it may copy event.peerHandle into
\* one of the application's variables (keep = a slot) or not (keep = "none")
DispatchNext(keep) ==
    /\ svc = "dispatch"
    /\ Len(invoked) < Len(HandlersFor(ev))
    /\ invoked' = Append(invoked, HandlersFor(ev)[Len(invoked) + 1])
    /\ LET ap == IF keep \in Slots THEN [appPeer EXCEPT ![keep] = evPeer]
                                   ELSE appPeer
           st == Settle(wst, ap, evPeer, peers_)
       IN /\ appPeer' = ap
          /\ wst' = st
          /\ wNative' = NativeOf(st, wNative)
    /\ UNCHANGED <<peers_, evPeer, econn, svc, ev,
                   lastResult, connectHandlers_, disconnectHandlers_,
                   receiveHandlers_, channelHandlers_, bufState, appPkt,
                   lastSend, result, cleared, nonHostVars>>

\* processEvent returns: the event value and peerWrapper go out of scope (a
\* ReceiveEvent destroys its packetData), service() returns result > 0
ServiceReturn ==
    /\ svc \in {"dispatch", "skip"}
    /\ svc = "dispatch" => Len(invoked) = Len(HandlersFor(ev))
    /\ bufState' = IF ev.type = "receive" /\ svc = "dispatch"
                     THEN Destroy(bufState, ev.pkt)
                   ELSE IF ev.type = "receive"
                     THEN [bufState EXCEPT ![ev.pkt] = "unowned"]
                   ELSE bufState
    /\ LET st == Settle(wst, appPeer, 0, peers_)
       IN /\ wst' = st
          /\ wNative' = NativeOf(st, wNative)
    /\ evPeer' = 0
    /\ ev' = NoEvent
    /\ invoked' = <<>>
    /\ svc' = "idle"
    /\ lastResult' = result
    /\ UNCHANGED <<peers_, appPeer, econn, connectHandlers_,
                   disconnectHandlers_, receiveHandlers_, channelHandlers_,
                   appPkt, lastSend, result, cleared, nonHostVars>>

\* Peer moved(std::move(*appPeer[sl])): the wrapper the registry knows is
\* left with a null nativePeer_
AppMovePeer(sl) ==
    /\ appPeer[sl] # 0
    /\ wNative[appPeer[sl]] # 0
    /\ wNative' = [wNative EXCEPT ![appPeer[sl]] = 0]
    /\ UNCHANGED <<peers_, wst, appPeer, evPeer, econn, svc, ev, invoked,
                   lastResult, connectHandlers_, disconnectHandlers_,
                   receiveHandlers_, channelHandlers_, bufState, appPkt,
                   lastSend, result, cleared, nonHostVars>>

(***************************************************************************)
(* Packet ownership: Packet::create, ~Packet, Peer::send, Host::broadcast  *)
(***************************************************************************)
\* appPkt = Packet::create(...)
AppCreatePacket ==
    /\ appPkt = 0
    /\ FreeBufs # {}
    /\ appPkt' = Lowest(FreeBufs)
    /\ bufState' = [bufState EXCEPT ![Lowest(FreeBufs)] = "wrapped"]
    /\ UNCHANGED <<peers_, wst, wNative, appPeer, evPeer,
                   econn, svc, ev, invoked, lastResult, connectHandlers_,
                   disconnectHandlers_, receiveHandlers_, channelHandlers_,
                   lastSend, result, cleared, nonHostVars>>

\* appPkt.reset(): ~Packet destroys the buffer it holds
AppDropPacket ==
    /\ appPkt # 0
    /\ appPkt' = 0
    /\ bufState' = Destroy(bufState, appPkt)
    /\ UNCHANGED <<peers_, wst, wNative, appPeer, evPeer,
                   econn, svc, ev, invoked, lastResult, connectHandlers_,
                   disconnectHandlers_, receiveHandlers_, channelHandlers_,
                   lastSend, result, cleared, nonHostVars>>

\* Peer::send without the `!pkt` test
PeerSend_NoNullTest(sl, ok) ==
    /\ appPeer[sl] # 0
    /\ ok => (wNative[appPeer[sl]] # 0 /\ econn[wNative[appPeer[sl]]] = "connected")
    /\ bufState' = IF appPkt = 0 THEN bufState
                   ELSE [bufState EXCEPT ![appPkt] = IF ok THEN "engine" ELSE "unowned"]
    /\ lastSend' = [op |-> "send", pkt |-> appPkt, engineCall |-> TRUE, ret |-> ok]
    /\ appPkt' = 0
    /\ UNCHANGED <<peers_, wst, wNative, appPeer, evPeer,
                   econn, svc, ev, invoked, lastResult, connectHandlers_,
                   disconnectHandlers_, receiveHandlers_, channelHandlers_,
                   result, cleared, nonHostVars>>

\* appPeer[sl]->send(channel, std::move(appPkt)); ok is what enet_peer_send
\* answers when it is called (it refuses a peer that is not connected)
PeerSend(sl, ok) ==
    /\ appPeer[sl] # 0
    /\ LET w == appPeer[sl]
           b == appPkt
       IN IF wNative[w] = 0 \/ b = 0
            THEN \* return false; the parameter pkt destroys what it holds
                 /\ ~ok
                 /\ bufState' = IF b = 0 THEN bufState ELSE Destroy(bufState, b)
                 /\ lastSend' = [op |-> "send", pkt |-> b, engineCall |-> FALSE,
                                 ret |-> FALSE]
            ELSE \* pkt.release(); return enet_peer_send(...) == 0
                 /\ ok => econn[wNative[w]] = "connected"
                 /\ bufState' = [bufState EXCEPT ![b] =
                                   IF ok THEN "engine" ELSE "unowned"]
                 /\ lastSend' = [op |-> "send", pkt |-> b, engineCall |-> TRUE,
                                 ret |-> ok]
    /\ appPkt' = 0
    /\ UNCHANGED <<peers_, wst, wNative, appPeer, evPeer,
                   econn, svc, ev, invoked, lastResult, connectHandlers_,
                   disconnectHandlers_, receiveHandlers_, channelHandlers_,
                   result, cleared, nonHostVars>>

\* host->broadcast(channel, std::move(appPkt))
HostBroadcast ==
    /\ IF appPkt = 0
         THEN /\ lastSend' = [op |-> "broadcast", pkt |-> 0, engineCall |-> FALSE,
                              ret |-> FALSE]
              /\ UNCHANGED bufState
         ELSE /\ lastSend' = [op |-> "broadcast", pkt |-> appPkt,
                              engineCall |-> TRUE, ret |-> TRUE]
              /\ bufState' = [bufState EXCEPT ![appPkt] = "engine"]
    /\ appPkt' = 0
    /\ UNCHANGED <<peers_, wst, wNative, appPeer, evPeer,
                   econn, svc, ev, invoked, lastResult, connectHandlers_,
                   disconnectHandlers_, receiveHandlers_, channelHandlers_,
                   result, cleared, nonHostVars>>

\* the engine has delivered a packet it owns and frees it
EngineRelease(b) ==
    /\ bufState[b] = "engine"
    /\ bufState' = Destroy(bufState, b)
    /\ UNCHANGED <<peers_, wst, wNative, appPeer, evPeer,
                   econn, svc, ev, invoked, lastResult, connectHandlers_,
                   disconnectHandlers_, receiveHandlers_, channelHandlers_,
                   appPkt, lastSend, result, cleared, nonHostVars>>

HostNext ==
    \/ OnConnect
    \/ OnDisconnect
    \/ OnReceive
    \/ \E c \in Channels : OnReceiveChannel(c)
    \/ \E sl \in Slots : HostConnect(sl)
    \/ \E sl \in Slots : AppDropPeer(sl)
    \/ \E sl \in Slots, pick \in 0..MaxWrappers : GetPeers(sl, pick)
    \/ \E n \in Natives : ServiceConnect(n)
    \/ \E n \in Natives : ServiceDisconnect(n)
    \/ \E n \in Natives, c \in Channels : ServiceReceive(n, c)
    \/ \E keep \in Slots \cup {"none"} : DispatchNext(keep)
    \/ ServiceReturn

HostSpec == HostInit /\ [][HostNext]_vars

\* The application registering and clearing handlers between the service()
\* calls of one thread; a handler may keep the event's peer.
DispatcherNext ==
    \/ OnConnect
    \/ OnDisconnect
    \/ OnReceive
    \/ \E c \in Channels : OnReceiveChannel(c)
    \/ ClearHandlers
    \/ \E sl \in Slots : AppDropPeer(sl)
    \/ \E r \in NoEventStatus : ServiceNoEvent(r)
    \/ \E n \in Natives : ServiceConnect(n)
    \/ \E n \in Natives : ServiceDisconnect(n)
    \/ \E n \in Natives, c \in Channels : ServiceReceive(n, c)
    \/ \E keep \in Slots \cup {"none"} : DispatchNext(keep)
    \/ ServiceReturn

DispatchSpec == HostInit /\ [][DispatcherNext]_vars

\* a Host whose application connects, keeps and drops peers while the engine
\* reports connections and disconnections
ConnectNext ==
    \/ \E sl \in Slots : HostConnect(sl)
    \/ \E sl \in Slots : \E why \in ConnectFailures : HostConnectFail(sl, why)
    \/ \E sl \in Slots : AppDropPeer(sl)
    \/ \E sl \in Slots : \E pick \in 0..MaxWrappers : GetPeers(sl, pick)
    \/ OnConnect
    \/ \E n \in Natives : ServiceConnect(n)
    \/ \E n \in Natives : ServiceDisconnect(n)
    \/ \E keep \in Slots \cup {"none"} : DispatchNext(keep)
    \/ ServiceReturn

ConnectSpec == HostInit /\ [][ConnectNext]_vars

\* The application creating, sending, broadcasting and dropping packets on a
\* host whose peers connect and disconnect; no handler is registered.
PacketNext ==
    \/ \E sl \in Slots : HostConnect(sl)
    \/ \E sl \in Slots : AppDropPeer(sl)
    \/ \E sl \in Slots : AppMovePeer(sl)
    \/ \E n \in Natives : ServiceConnect(n)
    \/ \E n \in Natives : ServiceDisconnect(n)
    \/ ServiceReturn
    \/ \E r \in NoEventStatus : ServiceNoEvent(r)
    \/ AppCreatePacket
    \/ AppDropPacket
    \/ \E sl \in Slots, ok \in BOOLEAN : PeerSend(sl, ok)
    \/ HostBroadcast
    \/ \E b \in Bufs : EngineRelease(b)

PacketSpec == HostInit /\ [][PacketNext]_vars

(***************************************************************************)
(* PacketReader (src/src/packet.cpp)                                       *)
(***************************************************************************)
\* size_t arithmetic is modulo 2^SizeBits
SizeMod == 2 ^ SizeBits
SizeT == 0..(SizeMod - 1)
SizeAdd(a, b) == (a + b) % SizeMod

\* the content of a packet of n bytes
PacketBytes(n) == [i \in 1..n |-> i % 2]

\* PacketReader reader(packet): position_(0)
ReaderInit ==
    /\ hwThreads = 1
    /\ SchedIdle
    /\ HostIdle
    /\ ThreadIdle
    /\ RestIdle
    /\ data_ \in {PacketBytes(n) : n \in 0..MaxData}
    /\ position_ = 0
    /\ lastRead = NoRead

\* the test `position_ + size > data_.size()` of read and readString
ReadRefused(n) == SizeAdd(position_, n) > Len(data_)

\* what read(buffer, size) does with size = n, for the caller op: the test, then
\* memcpy of n bytes from data_.data() + position_ (oob: the copy runs past
\* the end of data_), then position_ += n
ReadBytes(op, n) ==
    IF ReadRefused(n)
    THEN /\ lastRead' = [op |-> op, n |-> n, ok |-> FALSE, oob |-> FALSE]
         /\ UNCHANGED position_
    ELSE /\ lastRead' = [op |-> op, n |-> n, ok |-> TRUE,
                         oob |-> position_ + n > Len(data_)]
         /\ position_' = SizeAdd(position_, n)

\* reader.read(buffer, n)
Read(n) ==
    /\ ReadBytes("read", n)
    /\ UNCHANGED <<data_, nonReaderVars>>

\* what readUint8() does: throws when position_ >= data_.size(), else
\* returns data_[position_++]
ReadByte ==
    IF position_ >= Len(data_)
    THEN /\ lastRead' = [op |-> "readUint8", n |-> 1, ok |-> FALSE, oob |-> FALSE]
         /\ UNCHANGED position_
    ELSE /\ lastRead' = [op |-> "readUint8", n |-> 1, ok |-> TRUE, oob |-> FALSE]
         /\ position_' = SizeAdd(position_, 1)

\* reader.readUint8()
ReadUint8 ==
    /\ ReadByte
    /\ UNCHANGED <<data_, nonReaderVars>>

\* reader.readUint16(), readUint32(), readUint64(): read(&value, sizeof(value)),
\* throwing when it answers false
ReadUintN(n) ==
    /\ ReadBytes("readUint", n)
    /\ UNCHANGED <<data_, nonReaderVars>>

\* reader.readString(n): throws when the test refuses, else builds the string
\* from n bytes at data_.data() + position_
ReadString(n) ==
    /\ ReadBytes("readString", n)
    /\ UNCHANGED <<data_, nonReaderVars>>

\* reader.seek(p)
Seek(p) ==
    /\ position_' = IF p < Len(data_) THEN p ELSE Len(data_)
    /\ lastRead' = [op |-> "seek", n |-> p, ok |-> TRUE, oob |-> FALSE]
    /\ UNCHANGED <<data_, nonReaderVars>>

\* reader.skip(b)
Skip(b) ==
    /\ LET newPos == SizeAdd(position_, b)
       IN position_' = IF newPos < Len(data_) THEN newPos ELSE Len(data_)
    /\ lastRead' = [op |-> "skip", n |-> b, ok |-> TRUE, oob |-> FALSE]
    /\ UNCHANGED <<data_, nonReaderVars>>

\* reader.reset()
ReaderReset ==
    /\ position_' = 0
    /\ lastRead' = [op |-> "reset", n |-> 0, ok |-> TRUE, oob |-> FALSE]
    /\ UNCHANGED <<data_, nonReaderVars>>

\* reader.remaining()
Remaining == (Len(data_) - position_) % SizeMod

\* sizeof(uint16_t), sizeof(uint32_t), sizeof(uint64_t)
UintSizes == {2, 4, 8}

ReaderNext ==
    \/ \E n \in SizeT : Read(n)
    \/ ReadUint8
    \/ \E n \in UintSizes : ReadUintN(n)
    \/ \E n \in SizeT : ReadString(n)
    \/ \E p \in SizeT : Seek(p)
    \/ \E b \in SizeT : Skip(b)
    \/ ReaderReset

ReaderSpec == ReaderInit /\ [][ReaderNext]_vars

(***************************************************************************)
(* Host::startServiceThread, stopServiceThread, serviceThreadLoop, ~Host   *)
(* (src/src/host.cpp)                                                      *)
(***************************************************************************)
\* std::thread::joinable() of the thread object t
Joinable(t) == t # 0 /\ tst[t] # "unborn" /\ t \notin joined

\* service threads whose serviceThreadLoop has not returned
LiveServiceThreads == {t \in STids : tst[t] \in {"test", "service", "connect", "handler"}}

Unborn == {t \in STids : tst[t] = "unborn"}
Starting == {c \in Callers : callpc[c] \in {"start_test", "start_set", "start_spawn"}}

\* caller c can call a member of the Host: an application thread that holds a
\* shared_ptr<Host>, or the service thread from inside a handler
CanCall(c) ==
    /\ ~aborted
    /\ callpc[c] = "idle"
    /\ IF c \in AppThreads THEN hostState = "alive" ELSE tst[c] = "handler"

\* where stopServiceThread returns to: the caller, or ~Host when c runs it
AfterStop(c) == IF dtor = c THEN "dtor_release" ELSE "idle"

\* c calls host->startServiceThread()
StartSvcCall(c) ==
    /\ CanCall(c)
    /\ Cardinality(Unborn) > Cardinality(Starting)
    /\ callpc' = [callpc EXCEPT ![c] = "start_test"]
    /\ UNCHANGED <<serviceThreadRunning_, serviceThread_, tst, joined,
                   newThread, lastCall, dtor, hostState, nativeHost_,
                   releases, aborted, nonThreadVars>>

\* if (serviceThreadRunning_) return;
StartSvcTest(c) ==
    /\ ~aborted
    /\ callpc[c] = "start_test"
    /\ IF serviceThreadRunning_
       THEN /\ callpc' = [callpc EXCEPT ![c] = "idle"]
            /\ lastCall' = [lastCall EXCEPT ![c] = [op |-> "start", noop |-> TRUE]]
       ELSE /\ callpc' = [callpc EXCEPT ![c] = "start_set"]
            /\ UNCHANGED lastCall
    /\ UNCHANGED <<serviceThreadRunning_, serviceThread_, tst, joined,
                   newThread, dtor, hostState, nativeHost_, releases,
                   aborted, nonThreadVars>>

\* serviceThreadRunning_ = true;
StartSvcSet(c) ==
    /\ ~aborted
    /\ callpc[c] = "start_set"
    /\ serviceThreadRunning_' = TRUE
    /\ callpc' = [callpc EXCEPT ![c] = "start_spawn"]
    /\ UNCHANGED <<serviceThread_, tst, joined, newThread, lastCall, dtor,
                   hostState, nativeHost_, releases, aborted, nonThreadVars>>

\* std::make_unique<std::thread>(&Host::serviceThreadLoop, this): the thread
\* runs from here on
StartSvcSpawn(c) ==
    /\ ~aborted
    /\ callpc[c] = "start_spawn"
    /\ Unborn # {}
    /\ LET t == Lowest(Unborn)
       IN /\ tst' = [tst EXCEPT ![t] = "test"]
          /\ newThread' = [newThread EXCEPT ![c] = t]
    /\ callpc' = [callpc EXCEPT ![c] = "start_store"]
    /\ UNCHANGED <<serviceThreadRunning_, serviceThread_, joined, lastCall,
                   dtor, hostState, nativeHost_, releases, aborted,
                   nonThreadVars>>

\* serviceThread_ = <the new thread>: the std::thread serviceThread_ held is
\* destroyed, which calls std::terminate when it is joinable
StartSvcStore(c) ==
    /\ ~aborted
    /\ callpc[c] = "start_store"
    /\ serviceThread_' = newThread[c]
    /\ newThread' = [newThread EXCEPT ![c] = 0]
    /\ IF Joinable(serviceThread_)
       THEN /\ aborted' = TRUE
            /\ UNCHANGED <<callpc, lastCall>>
       ELSE /\ callpc' = [callpc EXCEPT ![c] = "idle"]
            /\ lastCall' = [lastCall EXCEPT ![c] = [op |-> "start", noop |-> FALSE]]
            /\ UNCHANGED aborted
    /\ UNCHANGED <<serviceThreadRunning_, tst, joined, dtor, hostState,
                   nativeHost_, releases, nonThreadVars>>

\* c calls host->stopServiceThread()
StopSvcCall(c) ==
    /\ CanCall(c)
    /\ callpc' = [callpc EXCEPT ![c] = "stop_test"]
    /\ UNCHANGED <<serviceThreadRunning_, serviceThread_, tst, joined,
                   newThread, lastCall, dtor, hostState, nativeHost_,
                   releases, aborted, nonThreadVars>>

\* if (!serviceThreadRunning_) return;
StopSvcTest(c) ==
    /\ ~aborted
    /\ callpc[c] = "stop_test"
    /\ IF ~serviceThreadRunning_
       THEN /\ callpc' = [callpc EXCEPT ![c] = AfterStop(c)]
            /\ lastCall' = [lastCall EXCEPT ![c] = [op |-> "stop", noop |-> TRUE]]
       ELSE /\ callpc' = [callpc EXCEPT ![c] = "stop_set"]
            /\ UNCHANGED lastCall
    /\ UNCHANGED <<serviceThreadRunning_, serviceThread_, tst, joined,
                   newThread, dtor, hostState, nativeHost_, releases,
                   aborted, nonThreadVars>>

\* serviceThreadRunning_ = false;
StopSvcSet(c) ==
    /\ ~aborted
    /\ callpc[c] = "stop_set"
    /\ serviceThreadRunning_' = FALSE
    /\ callpc' = [callpc EXCEPT ![c] = "stop_join"]
    /\ UNCHANGED <<serviceThread_, tst, joined, newThread, lastCall, dtor,
                   hostState, nativeHost_, releases, aborted, nonThreadVars>>

\* if (serviceThread_ && serviceThread_->joinable()) serviceThread_->join();
\* join blocks until the thread function has returned; a thread that joins
\* itself gets std::system_error (resource_deadlock_would_occur), which
\* leaves the handler and the thread function uncaught: std::terminate
StopSvcJoin(c) ==
    /\ ~aborted
    /\ callpc[c] = "stop_join"
    /\ IF ~Joinable(serviceThread_)
       THEN /\ callpc' = [callpc EXCEPT ![c] = "stop_reset"]
            /\ UNCHANGED <<joined, aborted>>
       ELSE IF serviceThread_ = c
       THEN /\ aborted' = TRUE
            /\ UNCHANGED <<joined, callpc>>
       ELSE /\ tst[serviceThread_] = "done"
            /\ joined' = joined \cup {serviceThread_}
            /\ callpc' = [callpc EXCEPT ![c] = "stop_reset"]
            /\ UNCHANGED aborted
    /\ UNCHANGED <<serviceThreadRunning_, serviceThread_, tst, newThread,
                   lastCall, dtor, hostState, nativeHost_, releases,
                   nonThreadVars>>

\* serviceThread_.reset();
StopSvcReset(c) ==
    /\ ~aborted
    /\ callpc[c] = "stop_reset"
    /\ IF Joinable(serviceThread_)
       THEN /\ aborted' = TRUE
            /\ UNCHANGED <<serviceThread_, callpc, lastCall>>
       ELSE /\ serviceThread_' = 0
            /\ callpc' = [callpc EXCEPT ![c] = AfterStop(c)]
            /\ lastCall' = [lastCall EXCEPT ![c] = [op |-> "stop", noop |-> FALSE]]
            /\ UNCHANGED aborted
    /\ UNCHANGED <<serviceThreadRunning_, tst, joined, newThread, dtor,
                   hostState, nativeHost_, releases, nonThreadVars>>

\* the application drops its last shared_ptr<Host> (no application thread is
\* inside a call): ~Host runs on thread a and begins with stopServiceThread(),
\* unless processEvent holds the shared_from_this() temporary at this moment
AppDropHost(a, apps) ==
    /\ ~aborted
    /\ hostState = "alive"
    /\ \A b \in apps : callpc[b] = "idle"
    /\ IF \E t \in STids : tst[t] = "connect"
       THEN /\ hostState' = "orphan"
            /\ UNCHANGED <<dtor, callpc>>
       ELSE /\ hostState' = "destroying"
            /\ dtor' = a
            /\ callpc' = [callpc EXCEPT ![a] = "stop_test"]
    /\ UNCHANGED <<serviceThreadRunning_, serviceThread_, tst, joined,
                   newThread, lastCall, nativeHost_, releases, aborted,
                   nonThreadVars>>

\* ~Host after stopServiceThread(): if (nativeHost_) enet_host_destroy, then
\* the members are destroyed, serviceThread_ among them
DtorRelease(c) ==
    /\ ~aborted
    /\ callpc[c] = "dtor_release"
    /\ nativeHost_' = "released"
    /\ releases' = releases + 1
    /\ hostState' = "destroyed"
    /\ callpc' = [callpc EXCEPT ![c] = "gone"]
    /\ aborted' = Joinable(serviceThread_)
    /\ UNCHANGED <<serviceThreadRunning_, serviceThread_, tst, joined,
                   newThread, lastCall, dtor, nonThreadVars>>

\* while (serviceThreadRunning_)
LoopTest(t) ==
    /\ ~aborted
    /\ tst[t] = "test"
    /\ callpc[t] = "idle"
    /\ tst' = [tst EXCEPT ![t] = IF serviceThreadRunning_ THEN "service" ELSE "done"]
    /\ UNCHANGED <<serviceThreadRunning_, serviceThread_, joined, callpc,
                   newThread, lastCall, dtor, hostState, nativeHost_,
                   releases, aborted, nonThreadVars>>

\* service(10ms): enet_host_service answers with no event, with a Connect
\* event (processEvent calls shared_from_this(), which throws bad_weak_ptr
\* when ~Host has begun) or with another event
ServiceResult(t, kind) ==
    /\ ~aborted
    /\ tst[t] = "service"
    /\ CASE kind = "none" -> tst' = [tst EXCEPT ![t] = "test"] /\ UNCHANGED aborted
         [] kind = "other" -> tst' = [tst EXCEPT ![t] = "handler"] /\ UNCHANGED aborted
         [] kind = "connect" ->
              IF hostState \in {"alive", "orphan"}
              THEN tst' = [tst EXCEPT ![t] = "connect"] /\ UNCHANGED aborted
              ELSE aborted' = TRUE /\ UNCHANGED tst
    /\ UNCHANGED <<serviceThreadRunning_, serviceThread_, joined, callpc,
                   newThread, lastCall, dtor, hostState, nativeHost_,
                   releases, nonThreadVars>>

\* the shared_from_this() temporary of processEvent goes: when it was the last
\* owner, ~Host runs on the service thread
ConnectDone(t) ==
    /\ ~aborted
    /\ tst[t] = "connect"
    /\ callpc[t] = "idle"
    /\ IF hostState = "orphan"
       THEN /\ hostState' = "destroying"
            /\ dtor' = t
            /\ callpc' = [callpc EXCEPT ![t] = "stop_test"]
            /\ UNCHANGED tst
       ELSE /\ tst' = [tst EXCEPT ![t] = "handler"]
            /\ UNCHANGED <<hostState, dtor, callpc>>
    /\ UNCHANGED <<serviceThreadRunning_, serviceThread_, joined, newThread,
                   lastCall, nativeHost_, releases, aborted, nonThreadVars>>

\* the handlers of the event return, and service() with them
HandlerReturn(t) ==
    /\ ~aborted
    /\ tst[t] = "handler"
    /\ callpc[t] = "idle"
    /\ tst' = [tst EXCEPT ![t] = "test"]
    /\ UNCHANGED <<serviceThreadRunning_, serviceThread_, joined, callpc,
                   newThread, lastCall, dtor, hostState, nativeHost_,
                   releases, aborted, nonThreadVars>>

EventKinds == {"none", "connect", "other"}

\* what a caller does inside startServiceThread / stopServiceThread / ~Host
CallerStep(c) ==
    \/ StartSvcTest(c)
    \/ StartSvcSet(c)
    \/ StartSvcSpawn(c)
    \/ StartSvcStore(c)
    \/ StopSvcTest(c)
    \/ StopSvcSet(c)
    \/ StopSvcJoin(c)
    \/ StopSvcReset(c)
    \/ DtorRelease(c)

\* what the service thread does by itself
ServiceThreadStep(t) ==
    \/ LoopTest(t)
    \/ \E kind \in EventKinds : ServiceResult(t, kind)
    \/ ConnectDone(t)
    \/ HandlerReturn(t)

\* a Host used by the application threads `apps` and by its own handlers
ThreadNext(apps) ==
    \/ \E c \in apps \cup STids : StartSvcCall(c)
    \/ \E c \in apps \cup STids : StopSvcCall(c)
    \/ \E c \in apps \cup STids : CallerStep(c)
    \/ \E a \in apps : AppDropHost(a, apps)
    \/ \E t \in STids : ServiceThreadStep(t)

\* one application thread
OneApp == {-1}

ServiceThreadSpec == HostInit /\ [][ThreadNext(OneApp)]_vars

\* every thread that can take a step of its own code eventually takes one
ThreadFairness ==
    /\ \A c \in Callers : WF_vars(CallerStep(c))
    /\ \A t \in STids : WF_vars(ServiceThreadStep(t))

ServiceThreadLiveSpec == HostInit /\ [][ThreadNext(OneApp)]_vars /\ ThreadFairness

\* several application threads
ServiceRaceSpec == HostInit /\ [][ThreadNext(AppThreads)]_vars

(***************************************************************************)
(* PacketBuilder, Packet::create and the framing reads                     *)
(* (src/src/packet.cpp)                                                    *)
(***************************************************************************)
ByteMod == 2 ^ ByteBits
Bytes == 0..(ByteMod - 1)

\* sizeof of the fixed-width fields
Width(t) ==
    CASE t = "u8" -> 1
      [] t = "u16" -> 2
      [] t = "u32" -> 4
      [] t = "u64" -> 8

UintTypes == {"u16", "u32", "u64"}
\* the wider fields written where the builder is cleared and written again
ShortTypes == {"u16", "u32"}

\* the values of a type: 0 .. ByteMod^sizeof - 1
MaxValue(t) == ByteMod ^ Width(t) - 1

\* the values the model writes: values whose bytes differ from one another
FieldValues(t) ==
    CASE t = "u8" -> {MaxValue("u8")}
      [] t = "u16" -> {6}
      [] t = "u32" -> {27}
      [] t = "u64" -> {6939}

\* the std::string values the model writes: the empty one and one of the 13
\* characters of "Hello, World!"
HelloWorld == [i \in 1..13 |-> i % ByteMod]
Strings == {<<>>, HelloWorld}

\* the PacketFlagsT values build() is called with: DEFAULT_FLAGS
\* (PacketFlag::reliable) and PacketFlag::noAllocate
BuildFlags == {"reliable", "noAllocate"}

Reverse(seq) == [i \in 1..Len(seq) |-> seq[Len(seq) + 1 - i]]

\* the object representation of the unsigned value v of n bytes, which
\* write(&value, sizeof(value)) copies into buffer_
ObjectBytes(v, n, order) ==
    LET le == [i \in 1..n |-> (v \div (ByteMod ^ (i - 1))) % ByteMod]
    IN IF order = "little" THEN le ELSE Reverse(le)

RECURSIVE LittleEndianValue(_)
LittleEndianValue(bytes) ==
    IF bytes = <<>> THEN 0
    ELSE Head(bytes) + ByteMod * LittleEndianValue(Tail(bytes))

\* the value read(&value, sizeof(value)) leaves in `value`
ValueOf(bytes, order) ==
    LittleEndianValue(IF order = "little" THEN bytes ELSE Reverse(bytes))

\* static_cast<uint32_t>(str.size())
Uint32Cast(n) == n % (ByteMod ^ Width("u32"))

\* the memory a Packet created with noAllocate points to is the storage of
\* buffer_: after `bytes` are stored behind the first `at` bytes of that
\* storage, the packet shows them; a reallocation (re) leaves it dangling
\* (a packet of no bytes reads nothing)
Aliased(pk, at, bytes, re) ==
    IF pk.noAllocate /\ ~pk.dangling /\ pk.bytes # <<>>
    THEN IF re THEN [pk EXCEPT !.dangling = TRUE]
         ELSE [pk EXCEPT !.bytes =
                 [i \in 1..Len(pk.bytes) |->
                    IF i > at /\ i <= at + Len(bytes) THEN bytes[i - at]
                                                    ELSE pk.bytes[i]]]
    ELSE pk

\* buffer_.insert(buffer_.end(), ...) / push_back of `bytes`, recorded as the
\* field f; whether the vector reallocates is up to its growth policy
BufferInsert(f, bytes) ==
    /\ Len(written) < MaxFields
    /\ Len(buffer_) + Len(bytes) <= MaxBuffer
    /\ calls < MaxBuilderCalls
    /\ calls' = calls + 1
    /\ buffer_' = buffer_ \o bytes
    /\ written' = Append(written, f)
    /\ \E re \in BOOLEAN :
         /\ re => bytes # <<>>
         /\ pkts' = [k \in 1..Len(pkts) |-> Aliased(pkts[k], Len(buffer_), bytes, re)]
    /\ UNCHANGED <<byteOrder, rpkt, readBack, pendingLen, readerVars, nonFrameVars>>

\* builder.writeUint8(v)
WriteUint8(v) == BufferInsert([t |-> "u8", v |-> v], <<v>>)

\* builder.writeUint16(v), writeUint32(v), writeUint64(v)
WriteUintN(t, v) ==
    BufferInsert([t |-> t, v |-> v], ObjectBytes(v, Width(t), byteOrder))

\* writeString without the length prefix
WriteString_NoLength(str) ==
    BufferInsert([t |-> "str", v |-> str], str)

\* builder.writeString(str): writeUint32(str.size()), then the characters
WriteString(str) ==
    BufferInsert([t |-> "str", v |-> str],
                 ObjectBytes(Uint32Cast(Len(str)), Width("u32"), byteOrder) \o str)

\* builder.clear(): the vector keeps its storage
BuilderClear ==
    /\ buffer_ # <<>>
    /\ calls < MaxBuilderCalls
    /\ calls' = calls + 1
    /\ buffer_' = <<>>
    /\ written' = <<>>
    /\ UNCHANGED <<byteOrder, pkts, rpkt, readBack, pendingLen, readerVars, nonFrameVars>>

\* builder.build(flags): Packet::create(Span(buffer_.data(), buffer_.size()),
\* flags), i.e. enet_packet_create, which copies the bytes unless flags has
\* ENET_PACKET_FLAG_NO_ALLOCATE; snap and fields remember the buffer and the
\* fields as they were at the call
Build(flags) ==
    /\ Len(pkts) < MaxBuilt
    /\ calls < MaxBuilderCalls
    /\ calls' = calls + 1
    /\ pkts' = Append(pkts, [noAllocate |-> flags = "noAllocate",
                             bytes |-> buffer_,
                             snap |-> buffer_,
                             fields |-> written,
                             dangling |-> FALSE])
    /\ UNCHANGED <<byteOrder, buffer_, written, rpkt, readBack, pendingLen,
                   readerVars, nonFrameVars>>

\* PacketReader reader(*pkts[p]): data_(pkt.data()), position_(0)
NewReader(p) ==
    /\ p \in 1..Len(pkts)
    /\ ~pkts[p].dangling
    /\ data_' = pkts[p].bytes
    /\ position_' = 0
    /\ lastRead' = NoRead
    /\ rpkt' = p
    /\ readBack' = <<>>
    /\ pendingLen' = -1
    /\ UNCHANGED <<byteOrder, buffer_, written, pkts, calls, nonFrameVars>>

\* the field the next framing read is for
NextField == pkts[rpkt].fields[Len(readBack) + 1]
\* the call threw / the call copied bytes from behind the end of data_
ReadFailed == [t |-> "fail", v |-> 0]
ReadOverrun == [t |-> "overrun", v |-> 0]
ReadOutcome(n, value) ==
    IF ReadRefused(n) THEN ReadFailed
    ELSE IF position_ + n > Len(data_) THEN ReadOverrun
    ELSE value

\* reader.readUint8() for a field written with writeUint8
FrameReadUint8 ==
    /\ rpkt # 0
    /\ Len(readBack) < Len(pkts[rpkt].fields)
    /\ NextField.t = "u8"
    /\ ReadByte
    /\ readBack' = Append(readBack,
                     IF position_ >= Len(data_) THEN ReadFailed
                     ELSE [t |-> "u8", v |-> data_[position_ + 1]])
    /\ UNCHANGED <<data_, byteOrder, buffer_, written, pkts, rpkt, pendingLen,
                   calls, nonFrameVars>>

\* reader.readUint16(), readUint32(), readUint64() for a field written with
\* the write of the same width
FrameReadUintN ==
    /\ rpkt # 0
    /\ Len(readBack) < Len(pkts[rpkt].fields)
    /\ NextField.t \in UintTypes
    /\ LET n == Width(NextField.t)
       IN /\ ReadBytes("readUint", n)
          /\ readBack' = Append(readBack, ReadOutcome(n,
               [t |-> NextField.t,
                v |-> ValueOf(SubSeq(data_, position_ + 1, position_ + n),
                              byteOrder)]))
    /\ UNCHANGED <<data_, byteOrder, buffer_, written, pkts, rpkt, pendingLen,
                   calls, nonFrameVars>>

\* auto length = reader.readUint32() for a field written with writeString
FrameReadLength ==
    /\ rpkt # 0
    /\ Len(readBack) < Len(pkts[rpkt].fields)
    /\ NextField.t = "str"
    /\ pendingLen = -1
    /\ LET n == Width("u32")
       IN /\ ReadBytes("readUint", n)
          /\ IF ReadRefused(n)
             THEN /\ readBack' = Append(readBack, ReadFailed)
                  /\ UNCHANGED pendingLen
             ELSE /\ pendingLen' = ValueOf(SubSeq(data_, position_ + 1, position_ + n),
                                           byteOrder)
                  /\ UNCHANGED readBack
    /\ UNCHANGED <<data_, byteOrder, buffer_, written, pkts, rpkt, calls, nonFrameVars>>

\* reader.readString(length) with the length just read
FrameReadString ==
    /\ rpkt # 0
    /\ pendingLen >= 0
    /\ ReadBytes("readString", pendingLen)
    /\ readBack' = Append(readBack, ReadOutcome(pendingLen,
         [t |-> "str",
          v |-> SubSeq(data_, position_ + 1, position_ + pendingLen)]))
    /\ pendingLen' = -1
    /\ UNCHANGED <<data_, byteOrder, buffer_, written, pkts, rpkt, calls, nonFrameVars>>

\* reader.atEnd()
AtEnd == position_ >= Len(data_)

FrameInit ==
    /\ hwThreads = 1
    /\ SchedIdle
    /\ HostIdle
    /\ ThreadIdle
    /\ ReaderIdle
    /\ PeerIdle
    /\ ConnIdle
    /\ LibIdle
    /\ LockIdle
    /\ OwnIdle
    /\ EpochIdle
    /\ byteOrder \in {"little", "big"}
    /\ buffer_ = <<>>
    /\ written = <<>>
    /\ pkts = <<>>
    /\ rpkt = 0
    /\ readBack = <<>>
    /\ pendingLen = -1
    /\ calls = 0

\* writes, one build and the matching reads
FramingNext ==
    \/ \E v \in FieldValues("u8") : WriteUint8(v)
    \/ \E t \in UintTypes : \E v \in FieldValues(t) : WriteUintN(t, v)
    \/ \E str \in Strings : WriteString(str)
    \/ \E flags \in BuildFlags : Len(pkts) < FramedPackets /\ Build(flags)
    \/ \E p \in 1..FramedPackets : NewReader(p)
    \/ FrameReadUint8
    \/ FrameReadUintN
    \/ FrameReadLength
    \/ FrameReadString

FramingSpec == FrameInit /\ [][FramingNext]_vars

\* a builder that is written, built, cleared and written again
BuilderNext ==
    \/ \E v \in FieldValues("u8") : Len(written) < ShortFields /\ WriteUint8(v)
    \/ \E t \in ShortTypes : \E v \in FieldValues(t) :
         Len(written) < ShortFields /\ WriteUintN(t, v)
    \/ BuilderClear
    \/ \E flags \in BuildFlags : Build(flags)

BuilderSpec == FrameInit /\ [][BuilderNext]_vars

(***************************************************************************)
(* Peer (src/src/peer.cpp)                                                 *)
(***************************************************************************)
\* the void operations of Peer and the engine function each of them calls
PeerRequests == {"disconnect", "disconnectNow", "disconnectLater", "ping",
                 "timeout", "reset"}
EngineFunction(op) ==
    CASE op = "send" -> "enet_peer_send"
      [] op = "disconnect" -> "enet_peer_disconnect"
      [] op = "disconnectNow" -> "enet_peer_disconnect_now"
      [] op = "disconnectLater" -> "enet_peer_disconnect_later"
      [] op = "ping" -> "enet_peer_ping"
      [] op = "timeout" -> "enet_peer_timeout"
      [] op = "reset" -> "enet_peer_reset"

\* enet_address_get_host: the name of a numeric host
HostName(h) == IF h = 2 THEN "peer.example" ELSE "localhost"

\* Endpoint::fromEnetAddress
FromEnetAddress(addr) == [host |-> HostName(addr.host), port |-> addr.port]

\* Peer::state(): static_cast<PeerState>(nativePeer_->state), or disconnected
\* for a null handle; the enumerators of PeerState are those of the engine
PeerStateOf(p) ==
    IF nativePeer_[p] # 0 THEN enetPeer.state ELSE "disconnected"

\* Peer::endpoint()
PeerEndpoint(p) ==
    IF nativePeer_[p] = 0 THEN [host |-> "", port |-> 0]
    ELSE FromEnetAddress(enetPeer.address)

\* Peer::roundTripTime()
PeerRoundTripTime(p) ==
    IF nativePeer_[p] # 0 THEN enetPeer.roundTripTime ELSE 0

\* Peer::isConnected / isConnecting / isDisconnecting / isDisconnected
IsConnected(p) == PeerStateOf(p) = "connected"
IsConnecting(p) ==
    PeerStateOf(p) \in {"connecting", "acknowledgingConnect",
                        "connectionPending", "connectionSucceeded"}
IsDisconnecting(p) ==
    PeerStateOf(p) \in {"disconnectLater", "disconnecting",
                        "acknowledgingDisconnect"}
IsDisconnected(p) == PeerStateOf(p) = "disconnected"

\* Peer::Peer(nativePeer, host): object 1 wraps the engine peer, object 2 is
\* made with a null handle
PeerInit ==
    /\ hwThreads = 1
    /\ SchedIdle
    /\ HostIdle
    /\ ThreadIdle
    /\ ReaderIdle
    /\ FrameIdle
    /\ ConnIdle
    /\ LibIdle
    /\ LockIdle
    /\ OwnIdle
    /\ EpochIdle
    /\ nativePeer_ = [p \in PeerObjs |-> IF p = 1 THEN 1 ELSE 0]
    /\ enetPeer \in [state : PeerStates, address : {RemoteAddress},
                     roundTripTime : Rtts]
    /\ engineCalls = <<>>
    /\ lastPeerCall = NoPeerCall

\* Peer::send calling the engine with whatever handle it has
PeerSendOn_NoNullTest(p, hasPkt, ok) ==
    /\ Len(engineCalls) < MaxEngineCalls
    /\ engineCalls' = Append(engineCalls,
                         [fn |-> EngineFunction("send"), peer |-> nativePeer_[p]])
    /\ lastPeerCall' = [peer |-> p, op |-> "send", engine |-> TRUE, ret |-> ok]
    /\ UNCHANGED <<nativePeer_, enetPeer, nonPeerVars>>

\* p.send(channel, std::move(pkt)) with pkt null or not; ok is what
\* enet_peer_send(...) == 0 gives when it is called
PeerSendOn(p, hasPkt, ok) ==
    /\ IF nativePeer_[p] = 0 \/ ~hasPkt
       THEN /\ lastPeerCall' = [peer |-> p, op |-> "send", engine |-> FALSE,
                                ret |-> FALSE]
            /\ UNCHANGED engineCalls
       ELSE /\ Len(engineCalls) < MaxEngineCalls
            /\ engineCalls' = Append(engineCalls,
                                 [fn |-> EngineFunction("send"), peer |-> nativePeer_[p]])
            /\ lastPeerCall' = [peer |-> p, op |-> "send", engine |-> TRUE,
                                ret |-> ok]
    /\ UNCHANGED <<nativePeer_, enetPeer, nonPeerVars>>

\* p.disconnect(), disconnectNow(), disconnectLater(), ping(), timeout(...),
\* reset(): the engine is called only with a handle that is not null
PeerRequest(p, op) ==
    /\ IF nativePeer_[p] # 0
       THEN /\ Len(engineCalls) < MaxEngineCalls
            /\ engineCalls' = Append(engineCalls,
                                 [fn |-> EngineFunction(op), peer |-> nativePeer_[p]])
            /\ lastPeerCall' = [peer |-> p, op |-> op, engine |-> TRUE,
                                ret |-> FALSE]
       ELSE /\ lastPeerCall' = [peer |-> p, op |-> op, engine |-> FALSE,
                                ret |-> FALSE]
            /\ UNCHANGED engineCalls
    /\ UNCHANGED <<nativePeer_, enetPeer, nonPeerVars>>

\* to = std::move(from): Peer::operator=(Peer&&)
PeerMoveAssign(to, from) ==
    /\ to # from
    /\ nativePeer_' = [nativePeer_ EXCEPT ![to] = nativePeer_[from], ![from] = 0]
    /\ lastPeerCall' = [peer |-> to, op |-> "move", engine |-> FALSE, ret |-> FALSE]
    /\ UNCHANGED <<enetPeer, engineCalls, nonPeerVars>>

\* the engine changes the peer's state and its round trip time estimate
EnginePeerUpdate ==
    /\ enetPeer' \in [state : PeerStates, address : {RemoteAddress},
                      roundTripTime : Rtts]
    /\ enetPeer' # enetPeer
    /\ UNCHANGED <<nativePeer_, engineCalls, lastPeerCall, nonPeerVars>>

PeerNext ==
    \/ \E p \in PeerObjs : \E hasPkt, ok \in BOOLEAN : PeerSendOn(p, hasPkt, ok)
    \/ \E p \in PeerObjs : \E op \in PeerRequests : PeerRequest(p, op)
    \/ \E to, from \in PeerObjs : PeerMoveAssign(to, from)
    \/ EnginePeerUpdate

PeerSpec == PeerInit /\ [][PeerNext]_vars

(***************************************************************************)
(* Library (src/src/library.cpp)                                           *)
(***************************************************************************)
\* Library::initialize calling enet_initialize whatever initialized_ is
LibInitialize_NoGuard(ok) ==
    /\ Len(enetLog) < MaxLibCalls
    /\ enetLog' = Append(enetLog, IF ok THEN "init" ELSE "init_failed")
    /\ initialized_' = (initialized_ \/ ok)
    /\ lastLibCall' = [op |-> "initialize", engine |-> TRUE, ret |-> ok]
    /\ UNCHANGED nonLibVars

\* Library::initialize(); ok: enet_initialize() answers 0 when it is called
LibInitialize(ok) ==
    /\ IF initialized_
       THEN /\ lastLibCall' = [op |-> "initialize", engine |-> FALSE, ret |-> TRUE]
            /\ UNCHANGED <<initialized_, enetLog>>
       ELSE /\ Len(enetLog) < MaxLibCalls
            /\ enetLog' = Append(enetLog, IF ok THEN "init" ELSE "init_failed")
            /\ initialized_' = ok
            /\ lastLibCall' = [op |-> "initialize", engine |-> TRUE, ret |-> ok]
    /\ UNCHANGED nonLibVars

\* Library::deinitialize()
LibDeinitialize ==
    /\ IF initialized_
       THEN /\ Len(enetLog) < MaxLibCalls
            /\ enetLog' = Append(enetLog, "deinit")
            /\ initialized_' = FALSE
            /\ lastLibCall' = [op |-> "deinitialize", engine |-> TRUE, ret |-> FALSE]
       ELSE /\ lastLibCall' = [op |-> "deinitialize", engine |-> FALSE, ret |-> FALSE]
            /\ UNCHANGED <<initialized_, enetLog>>
    /\ UNCHANGED nonLibVars

\* Library::isInitialized()
IsInitialized == initialized_

LibNext ==
    \/ \E ok \in BOOLEAN : LibInitialize(ok)
    \/ LibDeinitialize

LibSpec == HostInit /\ [][LibNext]_vars

(***************************************************************************)
(* peersMutex_ in Host::connect, peerCount, getPeers, findPeer and         *)
(* processEvent (src/src/host.cpp)                                         *)
(***************************************************************************)
\* the Host operations that take peersMutex_, and what each does under it:
\* connect pushes; peerCount counts; getPeers, and findPeer through it, scan
\* and prune
RegistryCalls == {"connect", "peerCount", "getPeers", "findPeer"}
UnderLock(op) ==
    CASE op = "connect" -> "push"
      [] op = "peerCount" -> "count"
      [] op = "getPeers" -> "scan"
      [] op = "findPeer" -> "scan"

\* the events processEvent dispatches to handlers
HandledEvents == {"connect", "disconnect", "receive"}

\* the registry access processEvent makes before it dispatches: the connect
\* case pushes the new wrapper, the others call findPeerByNative (getPeers)
Resolving(kind) == IF kind = "connect" THEN "push" ELSE "scan"

\* service() got an event: processEvent starts on the servicing thread
ProcessEventBegin(kind) ==
    /\ ppc = "idle"
    /\ rop["service"] = NoAccess
    /\ ppc' = "resolve"
    /\ pev' = kind
    /\ rop' = [rop EXCEPT !["service"] = [op |-> Resolving(kind), pc |-> "lock"]]
    /\ UNCHANGED <<peersMutex_, nonLockVars>>

\* std::lock_guard<std::mutex> lock(peersMutex_): blocks while it is held
\* (also when the caller itself holds it: std::mutex is not recursive)
LockPeers(t) ==
    /\ rop[t].pc = "lock"
    /\ peersMutex_ = "none"
    /\ peersMutex_' = t
    /\ rop' = [rop EXCEPT ![t].pc = "held"]
    /\ UNCHANGED <<ppc, pev, nonLockVars>>

\* processEvent keeping the lock while it dispatches
UnlockPeers_HeldAcrossDispatch(t, found) ==
    /\ rop[t].pc = "held"
    /\ rop' = [rop EXCEPT ![t] = NoAccess]
    /\ IF t = "service" /\ ppc = "resolve"
       THEN /\ ppc' = "dispatch"
            /\ UNCHANGED peersMutex_
       ELSE /\ peersMutex_' = "none"
            /\ UNCHANGED ppc
    /\ UNCHANGED <<pev, nonLockVars>>

\* the access is made and the lock_guard goes out of scope. In processEvent
\* that is the end of the block around push_back, or the return of getPeers
\* inside findPeerByNative, before the event is dispatched; found: the
\* wrapper of a Disconnect or Receive event was found (a Connect event
\* always has one)
UnlockPeers(t, found) ==
    /\ rop[t].pc = "held"
    /\ peersMutex_' = "none"
    /\ rop' = [rop EXCEPT ![t] = NoAccess]
    /\ ppc' = IF t = "service" /\ ppc = "resolve"
                THEN (IF found \/ pev = "connect" THEN "dispatch" ELSE "idle")
                ELSE ppc
    /\ UNCHANGED <<pev, nonLockVars>>

\* a handler, running on the servicing thread, calls an operation of the Host
HandlerCalls(op) ==
    /\ ppc = "dispatch"
    /\ rop["service"] = NoAccess
    /\ rop' = [rop EXCEPT !["service"] = [op |-> UnderLock(op), pc |-> "lock"]]
    /\ UNCHANGED <<peersMutex_, ppc, pev, nonLockVars>>

\* the handlers have returned: dispatch*, processEvent and service() return
HandlersReturn ==
    /\ ppc = "dispatch"
    /\ rop["service"] = NoAccess
    /\ ppc' = "idle"
    /\ pev' = "none"
    /\ UNCHANGED <<peersMutex_, rop, nonLockVars>>

\* another thread of the application calls an operation of the Host
AppCalls(t, op) ==
    /\ t # "service"
    /\ rop[t] = NoAccess
    /\ rop' = [rop EXCEPT ![t] = [op |-> UnderLock(op), pc |-> "lock"]]
    /\ UNCHANGED <<peersMutex_, ppc, pev, nonLockVars>>

LockNext ==
    \/ \E kind \in HandledEvents : ProcessEventBegin(kind)
    \/ \E t \in LockThreads : LockPeers(t)
    \/ \E t \in LockThreads : \E found \in BOOLEAN : UnlockPeers(t, found)
    \/ \E op \in RegistryCalls : HandlerCalls(op)
    \/ HandlersReturn
    \/ \E t \in LockThreads : \E op \in RegistryCalls : AppCalls(t, op)

LockSpec == HostInit /\ [][LockNext]_vars

(***************************************************************************)
(* Packet objects: Packet::create, Packet(Packet&&), operator=(Packet&&),  *)
(* ~Packet (src/src/packet.cpp), and the unique_ptr<Packet> handed to      *)
(* Peer::send and Host::broadcast                                          *)
(***************************************************************************)
\* the Host state the Packet operations leave alone
hostRest == <<peers_, wst, wNative, appPeer, evPeer, econn, svc, ev, invoked,
              lastResult, connectHandlers_, disconnectHandlers_,
              receiveHandlers_, channelHandlers_, appPkt, lastSend, result,
              cleared>>
ownFrame == <<hostRest, schedVars, readerVars, threadVars, frameVars, peerVars,
              connVars, libVars, lockVars, epochVars>>

\* ~Packet on object p: enet_packet_destroy when nativePacket_ is not null
DestroyHeld(bs, p) ==
    IF nativePacket_[p] # 0 THEN Destroy(bs, nativePacket_[p]) ELSE bs

\* p = Packet::create(...), p a unique_ptr<Packet> that is null (it never held
\* an object, or gave it up): enet_packet_create makes a new buffer, and the
\* object p released before, if any, is out of reach for good
PacketCreate(p) ==
    /\ pktAlive[p] \in {"none", "released"}
    /\ FreeBufs # {}
    /\ LET b == Lowest(FreeBufs)
       IN /\ nativePacket_' = [nativePacket_ EXCEPT ![p] = b]
          /\ bufState' = [bufState EXCEPT ![b] = "wrapped"]
          /\ lastPktOp' = [op |-> "create", to |-> p, from |-> 0, prev |-> 0,
                           ret |-> TRUE]
    /\ pktAlive' = [pktAlive EXCEPT ![p] = "live"]
    /\ UNCHANGED ownFrame

\* Packet to(std::move(from)): nativePacket_(std::exchange(other.nativePacket_,
\* nullptr))
PacketMoveConstruct(to, from) ==
    /\ pktAlive[to] = "none"
    /\ pktAlive[from] = "live"
    /\ nativePacket_' = [nativePacket_ EXCEPT ![to] = nativePacket_[from],
                                              ![from] = 0]
    /\ pktAlive' = [pktAlive EXCEPT ![to] = "live"]
    /\ lastPktOp' = [op |-> "moveConstruct", to |-> to, from |-> from,
                     prev |-> 0, ret |-> TRUE]
    /\ UNCHANGED <<bufState, ownFrame>>

\* operator=(Packet&&) that copies the handle and leaves it in the source
PacketMoveAssign_KeepsSource(to, from) ==
    /\ pktAlive[to] = "live"
    /\ pktAlive[from] = "live"
    /\ lastPktOp' = [op |-> "moveAssign", to |-> to, from |-> from,
                     prev |-> nativePacket_[to], ret |-> TRUE]
    /\ IF to = from
         THEN UNCHANGED <<nativePacket_, bufState>>
         ELSE /\ bufState' = DestroyHeld(bufState, to)
              /\ nativePacket_' = [nativePacket_ EXCEPT ![to] = nativePacket_[from]]
    /\ UNCHANGED <<pktAlive, ownFrame>>

\* to = std::move(from): nothing when this == &other; else the held buffer is
\* destroyed and nativePacket_ = std::exchange(other.nativePacket_, nullptr)
PacketMoveAssign(to, from) ==
    /\ pktAlive[to] = "live"
    /\ pktAlive[from] = "live"
    /\ lastPktOp' = [op |-> "moveAssign", to |-> to, from |-> from,
                     prev |-> nativePacket_[to], ret |-> TRUE]
    /\ IF to = from
         THEN UNCHANGED <<nativePacket_, bufState>>
         ELSE /\ bufState' = DestroyHeld(bufState, to)
              /\ nativePacket_' = [nativePacket_ EXCEPT ![to] = nativePacket_[from],
                                                        ![from] = 0]
    /\ UNCHANGED <<pktAlive, ownFrame>>

\* the object goes out of scope, or its unique_ptr is reset: ~Packet
PacketDrop(p) ==
    /\ pktAlive[p] = "live"
    /\ bufState' = DestroyHeld(bufState, p)
    /\ nativePacket_' = [nativePacket_ EXCEPT ![p] = 0]
    /\ pktAlive' = [pktAlive EXCEPT ![p] = "none"]
    /\ lastPktOp' = [op |-> "drop", to |-> p, from |-> 0,
                     prev |-> nativePacket_[p], ret |-> TRUE]
    /\ UNCHANGED ownFrame

\* what the by-value parameter pkt of send and broadcast does with object p
\* when handle is FALSE (a null nativePeer_ / nativeHost_): the function
\* returns and ~unique_ptr deletes the Packet. Otherwise pkt.release() gives
\* the object up without deleting it and its buffer goes to the engine call,
\* which takes it (taken) or refuses it and leaves it to the caller
HandOver(op, p, handle, taken) ==
    /\ pktAlive[p] = "live"
    /\ nativePacket_[p] # 0
    /\ IF ~handle
         THEN /\ ~taken
              /\ bufState' = DestroyHeld(bufState, p)
              /\ nativePacket_' = [nativePacket_ EXCEPT ![p] = 0]
              /\ pktAlive' = [pktAlive EXCEPT ![p] = "none"]
         ELSE /\ bufState' = [bufState EXCEPT ![nativePacket_[p]] =
                                IF taken THEN "engine" ELSE "unowned"]
              /\ pktAlive' = [pktAlive EXCEPT ![p] = "released"]
              /\ UNCHANGED nativePacket_
    /\ lastPktOp' = [op |-> op, to |-> 0, from |-> p, prev |-> nativePacket_[p],
                     ret |-> taken]

\* peer->send(channel, std::move(pkt)) with pkt holding object p: returns
\* enet_peer_send(...) == 0
PacketSend(p, handle, ok) ==
    /\ HandOver("send", p, handle, ok)
    /\ UNCHANGED ownFrame

\* host->broadcast(channel, std::move(pkt)): enet_host_broadcast takes the
\* packet
PacketBroadcast(p, handle) ==
    /\ HandOver("broadcast", p, handle, handle)
    /\ UNCHANGED ownFrame

\* send or broadcast called with a null unique_ptr: `!pkt`, nothing is done
SendNull(op) ==
    /\ lastPktOp' = [op |-> op, to |-> 0, from |-> 0, prev |-> 0, ret |-> FALSE]
    /\ UNCHANGED <<nativePacket_, pktAlive, bufState, ownFrame>>

OwnNext ==
    \/ \E p \in PktObjs : PacketCreate(p)
    \/ \E to \in PktObjs, from \in PktObjs : PacketMoveConstruct(to, from)
    \/ \E to \in PktObjs, from \in PktObjs : PacketMoveAssign(to, from)
    \/ \E p \in PktObjs : PacketDrop(p)
    \/ \E p \in PktObjs, handle \in BOOLEAN, ok \in BOOLEAN :
         PacketSend(p, handle, ok)
    \/ \E p \in PktObjs, handle \in BOOLEAN : PacketBroadcast(p, handle)
    \/ \E op \in {"send", "broadcast"} : SendNull(op)
    \/ \E b \in Bufs : EngineRelease(b)

OwnSpec == HostInit /\ [][OwnNext]_vars

(***************************************************************************)
(* Connections that end while the application keeps their Peer, and engine *)
(* peers that are given to a later connection (src/src/host.cpp,           *)
(* src/src/peer.cpp)                                                       *)
(***************************************************************************)
epochFrame == <<schedVars, readerVars, threadVars, frameVars, peerVars, connVars,
                libVars, lockVars, ownVars>>

\* the live wrappers whose nativePeer_ is engine peer n
WrappersOf(n) == {w \in Wrappers : wst[w] = "alive" /\ wNative[w] = n}

\* host->connect(endpoint): the Peer it returns belongs to the new connection
ConnectTracked(sl) ==
    /\ Connect(sl)
    /\ ended' = ended \ {Lowest(FreeWrappers)}
    /\ UNCHANGED <<lastRequest, lastUse, epochFrame>>

\* a Connect event: the Peer it delivers belongs to the new connection
ConnectEventTracked(n) ==
    /\ ConnectEvent(n)
    /\ ended' = ended \ {Lowest(FreeWrappers)}
    /\ UNCHANGED <<lastRequest, lastUse, epochFrame>>

\* a Disconnect event that erases the Peer from the registry and clears its
\* handle
DisconnectEventTracked_Forgets(n) ==
    /\ svc = "idle"
    /\ econn[n] \in {"pending", "connected"}
    /\ econn' = [econn EXCEPT ![n] = "free"]
    /\ ev' = [type |-> "disconnect", peer |-> n, pkt |-> 0, channel |-> 0]
    /\ invoked' = <<>>
    /\ LET found == FindPeerByNative(n)
           reg == SelectSeq(GetPeersResult(peers_), LAMBDA w : w # found)
           st == Settle(wst, appPeer, found, reg)
       IN /\ peers_' = reg
          /\ evPeer' = found
          /\ wst' = st
          /\ wNative' = [NativeOf(st, wNative) EXCEPT ![found] = 0]
          /\ svc' = IF found # 0 THEN "dispatch" ELSE "skip"
    /\ result' \in EventStatus
    /\ ended' = ended \cup WrappersOf(n)
    /\ UNCHANGED <<appPeer, lastResult, connectHandlers_,
                   disconnectHandlers_, receiveHandlers_, channelHandlers_,
                   bufState, appPkt, lastSend, cleared, lastRequest, lastUse, epochFrame>>

\* a Disconnect event: the connection of engine peer n has ended, the engine
\* may give the peer to the next connection
DisconnectEventTracked(n) ==
    /\ DisconnectEvent(n)
    /\ ended' = ended \cup WrappersOf(n)
    /\ UNCHANGED <<lastRequest, lastUse, epochFrame>>

\* the kinds of disconnect request
DisconnectKinds == {"disconnect", "disconnectNow", "disconnectLater"}

\* appPeer[sl]->disconnect(), disconnectNow() or disconnectLater(): nothing on
\* a null handle; else the engine is asked. enet_peer_disconnect_now resets
\* the engine peer at once without an event, and so do the other two on a
\* peer that is still connecting; on a connected peer they start a
\* disconnection that a later Disconnect event reports
PeerDisconnect(sl, how) ==
    /\ svc = "idle"
    /\ appPeer[sl] # 0
    /\ LET w == appPeer[sl]
           n == wNative[w]
           reset == /\ n # 0
                    /\ \/ how = "disconnectNow" /\ econn[n] # "free"
                       \/ econn[n] = "pending"
       IN /\ lastRequest' = [peer |-> w, how |-> how]
          /\ econn' = IF reset THEN [econn EXCEPT ![n] = "free"] ELSE econn
          /\ ended' = IF reset THEN ended \cup WrappersOf(n) ELSE ended
    /\ UNCHANGED <<peers_, wst, wNative, appPeer, evPeer, svc, ev, invoked,
                   lastResult, connectHandlers_, disconnectHandlers_,
                   receiveHandlers_, channelHandlers_, bufState, appPkt,
                   lastSend, result, cleared, lastUse, epochFrame>>

\* An application that connects, keeps, disconnects and drops peers, and is
\* told of connections, disconnections and packets by a service() it polls.
ReuseNext ==
    \/ \E sl \in Slots : ConnectTracked(sl)
    \/ \E sl \in Slots : AppDropPeer(sl)
    \/ OnDisconnect
    \/ \E n \in Natives : ConnectEventTracked(n)
    \/ \E n \in Natives : DisconnectEventTracked(n)
    \/ \E n \in Natives : ServiceReceive(n, 0)
    \/ \E keep \in Slots \cup {"none"} : DispatchNext(keep)
    \/ ServiceReturn
    \/ \E sl \in Slots : \E how \in DisconnectKinds : PeerDisconnect(sl, how)

ReuseSpec == HostInit /\ [][ReuseNext]_vars

(***************************************************************************)
(* Peer objects that outlive their Host (src/src/peer.cpp, Host::~Host)    *)
(***************************************************************************)
\* the members of Peer that pass nativePeer_ to the engine or read through it
PeerMembers == {"send", "disconnect", "disconnectNow", "disconnectLater",
                "ping", "state", "endpoint"}

\* appPeer[sl] = host->connect(endpoint), by an application that holds the Host
ConnectHeld(sl) ==
    /\ hostState = "alive"
    /\ HostConnect(sl)

\* a member of the Peer in appPeer[sl] is called: it tests nativePeer_ for
\* null and nothing else before it hands the pointer to the engine or reads
\* nativePeer_->state / ->address
PeerUse(sl, op) ==
    /\ ~aborted
    /\ appPeer[sl] # 0
    /\ lastUse' = [peer |-> appPeer[sl], op |-> op,
                   native |-> wNative[appPeer[sl]], host |-> FALSE,
                   released |-> nativeHost_ = "released"]
    /\ UNCHANGED <<ended, lastRequest, hostVars, epochFrame>>

\* appPeer[sl]->hostHandle(): host_.lock(), non-null while some shared_ptr
\* owns the Host
PeerHostHandle(sl) ==
    /\ ~aborted
    /\ appPeer[sl] # 0
    /\ lastUse' = [peer |-> appPeer[sl], op |-> "hostHandle", native |-> 0,
                   host |-> hostState \in {"alive", "orphan"},
                   released |-> nativeHost_ = "released"]
    /\ UNCHANGED <<ended, lastRequest, hostVars, epochFrame>>

\* An application that connects peers, keeps or drops them, drops its Host
\* (no service thread was started) and goes on using the Peers it holds.
SurviveNext ==
    \/ \E sl \in Slots : ConnectHeld(sl)
    \/ \E sl \in Slots : AppDropPeer(sl)
    \/ \E a \in OneApp : AppDropHost(a, OneApp)
    \/ \E a \in OneApp : StopSvcTest(a)
    \/ \E a \in OneApp : DtorRelease(a)
    \/ \E sl \in Slots : \E op \in PeerMembers : PeerUse(sl, op)
    \/ \E sl \in Slots : PeerHostHandle(sl)

SurviveSpec == HostInit /\ [][SurviveNext]_vars

(***************************************************************************)
(* Scheduler claims                                                        *)
(***************************************************************************)
LiveStates == {"loop", "lock", "pred", "prewait", "wait", "wakeup", "check", "take",
               "run"}
LiveThreads == {w \in Tids : wpc[w] \in LiveStates}
PoolThreads == {workerThreads_[i] : i \in 1..Len(workerThreads_)}
Occurrences(seq, x) == Cardinality({i \in 1..Len(seq) : seq[i] = x})

\* C5: stop() joins every worker before it returns: in the states after a
\* stop() that found the scheduler running has returned, no worker thread
\* exists, no task is executing and isRunning() is false; a stop() that finds
\* the scheduler not running changes nothing.
C5_StopJoinsWorkers ==
    /\ [](cpc = "idle" /\ lastOp = "stop"
            => /\ ~running_
               /\ LiveThreads = {}
               /\ \A w \in Tids : wpc[w] # "exited" /\ wtask[w] = 0
               /\ workerThreads_ = <<>>)
    /\ [][(cpc = "stop_check" /\ ~running_ /\ cpc' = "idle")
            => UNCHANGED <<running_, workerThreads_, taskQueue_, queueMutex_,
                           cvWaiters, wpc, wtask, nextTid, dequeued, finished>>]_vars

C5_Witness ==
    /\ cpc = "idle"
    /\ lastOp = "stop"
    /\ finished # {}
    /\ \E w \in Tids : wpc[w] = "joined"

\* C6: under fair scheduling every stop() call returns.
C6_StopTerminates == (cpc = "stop_check") ~> (cpc = "idle")

\* C7: a start() that finds the scheduler running spawns no thread, and after
\* start() has returned (first or repeated call) the pool is exactly N live
\* threads, N = max(hardware concurrency, 1).
C7_StartIdempotent ==
    /\ [](cpc = "idle" /\ lastOp \in {"start", "start_noop"}
            => /\ Len(workerThreads_) = ThreadCount(hwThreads)
               /\ Cardinality(PoolThreads) = ThreadCount(hwThreads)
               /\ LiveThreads = PoolThreads)
    /\ [][(cpc = "start_check" /\ running_ /\ cpc' # cpc)
            => cpc' = "idle" /\ UNCHANGED <<workerThreads_, wpc, nextTid, running_>>]_vars

C7_Witness ==
    /\ cpc = "idle"
    /\ lastOp = "start_noop"
    /\ hwThreads = 2
    /\ Len(workerThreads_) = 2

\* C8: a start() that follows a stop() yields a pool of N fresh workers, none
\* of the earlier workers is left, and a task scheduled while that pool runs
\* is executed (unless the scheduler is stopped first).
Restarted == nextTid > ThreadCount(hwThreads) + 1

C8_Reentry ==
    /\ [](cpc = "idle" /\ lastOp = "start" /\ Restarted
            => /\ Len(workerThreads_) = ThreadCount(hwThreads)
               /\ PoolThreads = (nextTid - ThreadCount(hwThreads))..(nextTid - 1)
               /\ LiveThreads = PoolThreads)
    /\ \A t \in Tasks :
         (Restarted /\ running_ /\ spc[t] # "idle")
            ~> (t \in finished \/ ~running_)

C8_Witness ==
    /\ Restarted
    /\ running_
    /\ cpc = "idle"
    /\ lastOp = "start"
    /\ \E t \in Tasks : t \in finished /\ dequeued[Len(dequeued)] = t
                          /\ \E w \in PoolThreads : wpc[w] = "loop"

\* C9: every task is dequeued at most once and run by one worker: a task that
\* was dequeued is being run by exactly one worker or has finished, a task
\* that was not dequeued is neither running nor finished.
C9_AtMostOnce ==
    \A t \in Tasks :
        LET n == Occurrences(dequeued, t)
            runners == {w \in Tids : wtask[w] = t}
        IN /\ n <= 1
           /\ n = 1 => (Cardinality(runners) = 1) # (t \in finished)
           /\ n = 0 => runners = {} /\ t \notin finished
           /\ \A w \in runners : wpc[w] = "run"

C9_Witness ==
    \E w1, w2 \in Tids :
        /\ w1 # w2
        /\ wpc[w1] = "run" /\ wpc[w2] = "run"
        /\ wtask[w1] # wtask[w2]

\* C10: a task handed to schedule() at any time, also before the first
\* start(), is eventually executed once the scheduler runs and stays running.
C10_ScheduledRuns ==
    \A t \in Tasks :
        (running_ /\ spc[t] # "idle") ~> (t \in finished \/ ~running_)

C10_Witness ==
    /\ running_
    /\ finished = Tasks
    /\ cvWaiters # {}
    /\ lastOp = "start"

(***************************************************************************)
(* Host claims                                                             *)
(***************************************************************************)
\* C1: for every event the engine returns to service(), each registered
\* handler of that event kind has been invoked exactly once, in order, when
\* service() returns.
C1_EveryEventDispatched ==
    [][(svc \in {"dispatch", "skip"} /\ svc' = "idle")
         => invoked = HandlersFor(ev)]_vars

\* C2: when the last strong reference to a registered Peer goes, peerCount()
\* drops by exactly one and getPeers() no longer returns that Peer, with or
\* without a Disconnect event; every reference the application or
\* processEvent holds is to a live Peer, and a Peer is alive only while
\* somebody other than the registry holds it.
C2_WeakRegistryPruning ==
    /\ [][\A w \in Wrappers :
            (wst[w] = "alive" /\ wst'[w] # "alive")
               => /\ PeerCount' = PeerCount - 1
                  /\ w \notin Range(GetPeersResult(peers_))']_vars
    /\ [](\A sl \in Slots : appPeer[sl] # 0 => wst[appPeer[sl]] = "alive")
    /\ [](evPeer # 0 => wst[evPeer] = "alive")
    /\ [](\A w \in Wrappers :
            wst[w] = "alive" => RefCount(w, appPeer, evPeer) > 0)

C2_Witness ==
    /\ \E i \in 1..Len(peers_) : wst[peers_[i]] = "expired"
    /\ PeerCount = Len(peers_) - 1
    /\ PeerCount >= 1
    /\ \E n \in Natives : econn[n] = "connected" /\ FindPeerByNative(n) = 0

\* C3: after Peer::send or Host::broadcast the caller's packet wrapper is
\* empty; a call with an empty wrapper returns false (send) or does nothing
\* (broadcast), makes no engine call and changes no buffer; no buffer is
\* ever destroyed twice.
C3_SingleUse ==
    /\ [][lastSend' # lastSend
            => /\ appPkt' = 0
               /\ lastSend'.pkt = appPkt
               /\ appPkt = 0 => /\ ~lastSend'.engineCall
                                /\ ~lastSend'.ret
                                /\ bufState' = bufState]_vars
    /\ [](\A b \in Bufs : bufState[b] # "double")

C3_Witness ==
    /\ lastSend.op = "send"
    /\ lastSend.pkt = 0
    /\ ~lastSend.ret
    /\ appPkt = 0
    /\ \E b \in Bufs : bufState[b] = "engine"

\* C4: every packet buffer handed to service() in a Receive event is
\* destroyed exactly once: it still exists while the receive handlers run and
\* it has been destroyed, once, when service() returns.
C4_ReceivedPacketDestroyedOnce ==
    /\ [](svc = "dispatch" /\ ev.type = "receive" => bufState[ev.pkt] = "event")
    /\ [][(svc # "idle" /\ svc' = "idle" /\ ev.type = "receive")
            => bufState'[ev.pkt] = "destroyed"]_vars

(***************************************************************************)
(* Service thread claims                                                   *)
(***************************************************************************)
\* C11: a Host never has two service threads: startServiceThread() while a
\* service thread runs spawns nothing, and stopServiceThread() while none
\* runs changes nothing, whatever threads make the calls and however the
\* calls interleave.
C11_AtMostOneServiceThread ==
    /\ [](Cardinality(LiveServiceThreads) <= 1)
    /\ [][\A c \in Callers :
            (callpc[c] = "start_test" /\ callpc'[c] # "start_test"
                                      /\ LiveServiceThreads # {})
               => callpc'[c] = "idle" /\ lastCall'[c].noop]_vars
    /\ [][\A c \in Callers :
            (callpc[c] = "stop_test" /\ callpc'[c] # "stop_test"
                                     /\ LiveServiceThreads = {})
               => callpc'[c] # "stop_set"]_vars

\* C12: when a stopServiceThread() call of the application returns, the
\* service thread has exited and been joined: no thread is in the loop, in
\* service() or in a handler, and none runs until the next start.
C12_StopJoinsServiceThread ==
    \A a \in OneApp :
        (callpc[a] \in {"idle", "dtor_release"} /\ lastCall[a].op = "stop")
           => /\ LiveServiceThreads = {}
              /\ \A t \in STids : tst[t] = "done" => t \in joined
              /\ serviceThread_ = 0
              /\ ~serviceThreadRunning_

\* C13: ~Host releases the engine host only after its stopServiceThread()
\* call has returned and every service thread is joined, it releases it once,
\* and no service thread is inside service() on a released host.
C13_TeardownOrder ==
    /\ [](nativeHost_ = "released" =>
            /\ LiveServiceThreads = {}
            /\ \A t \in STids : tst[t] # "unborn" => t \in joined)
    /\ [](releases <= 1)
    /\ [](hostState = "destroyed" <=> releases = 1)
    /\ [](releases = 1 <=> nativeHost_ = "released")
    /\ [][nativeHost_' # nativeHost_
            => /\ dtor # 0
               /\ callpc[dtor] = "dtor_release"
               /\ lastCall[dtor].op = "stop"]_vars
    /\ [](\A t \in STids : tst[t] = "service" => nativeHost_ = "live")

\* C14: every stopServiceThread() call returns, whichever thread makes it.
C14_StopServiceThreadReturns ==
    \A c \in Callers :
        (callpc[c] = "stop_test") ~> (callpc[c] \in {"idle", "dtor_release", "gone"})

(***************************************************************************)
(* Dispatch claims                                                         *)
(***************************************************************************)
\* the list of global handlers dispatch walks for event e
GlobalHandlers(e) ==
    CASE e.type = "connect" -> connectHandlers_
      [] e.type = "disconnect" -> disconnectHandlers_
      [] e.type = "receive" -> receiveHandlers_
      [] OTHER -> <<>>

IsPrefix(a, b) == Len(a) <= Len(b) /\ SubSeq(b, 1, Len(a)) = a

HandlerLists ==
    <<connectHandlers_, disconnectHandlers_, receiveHandlers_,
      channelHandlers_[0], channelHandlers_[1]>>

\* C15: events are dispatched in the order service() gets them: an event is
\* taken up only when no handler of an earlier event is running or pending,
\* and every handler invocation belongs to the event in progress.
C15_EventsInOrder ==
    /\ [][(ev' # ev /\ ev'.type # "none")
            => svc = "idle" /\ invoked = <<>> /\ invoked' = <<>>]_vars
    /\ [][(invoked' # invoked /\ invoked' # <<>>)
            => /\ ev' = ev
               /\ svc = "dispatch"
               /\ invoked' = Append(invoked, HandlersFor(ev)[Len(invoked') ])]_vars
    /\ [](svc = "idle" => invoked = <<>> /\ ev = NoEvent)

C15_Witness ==
    /\ svc = "dispatch"
    /\ ev.type \in {"disconnect", "receive"}
    /\ invoked # <<>>
    /\ lastResult \in EventStatus

\* C16: service() returns what enet_host_service answered; with a status of
\* 0 or below no handler is invoked and the peer registry is left alone, and
\* handlers run only for a status above 0.
C16_ServiceStatus ==
    /\ [](svc = "idle" => lastResult = result)
    /\ [](svc # "idle" => result > 0)
    /\ [][(result' <= 0 /\ <<result, lastResult>>' # <<result, lastResult>>)
            => /\ svc = "idle" /\ svc' = "idle"
               /\ invoked = <<>> /\ invoked' = <<>>
               /\ UNCHANGED <<peers_, wst, wNative, ev, evPeer, appPeer>>]_vars

C16_Witness ==
    /\ svc = "idle"
    /\ lastResult = -1
    /\ Registered > 0
    /\ \E i \in 1..Len(peers_) : wst[peers_[i]] = "expired"

\* C17: the global handlers of an event's kind are invoked in registration
\* order, one at a time, and all of them before dispatch returns.
C17_RegistrationOrder ==
    /\ [](svc = "dispatch" =>
            \A i \in 1..Len(invoked) :
               i <= Len(GlobalHandlers(ev)) => invoked[i] = HandlerId(ev.type, 0, i))
    /\ [][(invoked' # invoked /\ invoked' # <<>>)
            => Len(invoked') = Len(invoked) + 1 /\ IsPrefix(invoked, invoked')]_vars
    /\ [][(svc = "dispatch" /\ svc' = "idle")
            => Len(invoked) >= Len(GlobalHandlers(ev))]_vars

C17_Witness ==
    /\ svc = "dispatch"
    /\ Len(GlobalHandlers(ev)) >= 2
    /\ Len(invoked) >= 2
    /\ invoked[1] = HandlerId(ev.type, 0, 1)
    /\ invoked[2] = HandlerId(ev.type, 0, 2)

\* C18: for a Receive event on channel c the handlers of channel c run after
\* every global receive handler, in their registration order, all of them,
\* and no handler of another channel runs.
C18_ChannelHandlers ==
    /\ [](\A i \in 1..Len(invoked) :
            (invoked[i][1] = "channel" \/ i > Len(GlobalHandlers(ev)))
               => /\ ev.type = "receive"
                  /\ i > Len(receiveHandlers_)
                  /\ invoked[i] = HandlerId("channel", ev.channel, i - Len(receiveHandlers_)))
    /\ [][(svc = "dispatch" /\ svc' = "idle" /\ ev.type = "receive")
            => Len(invoked) = Len(receiveHandlers_) + Len(channelHandlers_[ev.channel])]_vars

C18_Witness ==
    /\ svc = "dispatch"
    /\ ev.type = "receive"
    /\ receiveHandlers_ # <<>>
    /\ channelHandlers_[ev.channel] # <<>>
    /\ channelHandlers_[1 - ev.channel] # <<>>
    /\ Len(invoked) = Len(receiveHandlers_) + Len(channelHandlers_[ev.channel])

\* C19: only clearHandlers() removes handlers, it removes all of them, and
\* until a handler is registered again no dispatched event invokes one.
C19_OnlyClearRemoves ==
    /\ [][(\E k \in 1..Len(HandlerLists) : ~IsPrefix(HandlerLists[k], HandlerLists'[k]))
            => cleared' /\ Registered' = 0]_vars
    /\ [](cleared => Registered = 0)
    /\ [](Registered = 0 => invoked = <<>>)
    /\ [][(svc = "dispatch" /\ svc' = "idle" /\ cleared) => invoked = <<>>]_vars

C19_Witness ==
    /\ cleared
    /\ svc = "dispatch"
    /\ ev.type = "receive"
    /\ invoked = <<>>

(***************************************************************************)
(* PacketReader claims                                                     *)
(***************************************************************************)
ReadOps == {"read", "readUint8", "readUint", "readString"}

\* C20: a read, readUint8/16/32/64 or readString call that asks for more bytes
\* than remaining() fails and leaves position() and remaining() as they were,
\* for every cursor position and every length a size_t can hold.
C20_UnderflowSafety ==
    [][(/\ lastRead'.op \in ReadOps
        /\ lastRead' # lastRead \/ position_' # position_
        /\ lastRead'.n > Remaining)
         => /\ ~lastRead'.ok
            /\ position_' = position_
            /\ Remaining' = Remaining]_vars

\* C21: after any sequence of PacketReader calls the cursor stays inside the
\* data (0 <= position <= size), a read that succeeds for k bytes moves the
\* cursor forward by exactly k, and remaining() = size - position does not
\* underflow.
C21_ReaderInvariant ==
    /\ [](position_ >= 0 /\ position_ <= Len(data_))
    /\ [](Remaining = Len(data_) - position_)
    /\ [][(/\ lastRead'.op \in ReadOps
           /\ lastRead' # lastRead \/ position_' # position_
           /\ lastRead'.ok)
            => position_' = position_ + lastRead'.n]_vars

(***************************************************************************)
(* Framing claims                                                          *)
(***************************************************************************)
\* bytes a field takes in a packet: its width, 4 + its length for a string
FieldSize(f) == IF f.t = "str" THEN Width("u32") + Len(f.v) ELSE Width(f.t)

RECURSIVE FrameSize(_)
FrameSize(fields) ==
    IF fields = <<>> THEN 0
    ELSE FieldSize(Head(fields)) + FrameSize(Tail(fields))

\* the fields of the packet of test_packet_operations
ExampleTypes == <<"u32", "str", "u32", "u8">>

\* C22: a packet built after any sequence of writeUint8/16/32/64 and
\* writeString calls has the size of the sum of the field widths (a string
\* counting 4 + its length), and reading it back with the matching reads in
\* the same order, a string as a uint32 length followed by readString(length),
\* returns the written values and ends with atEnd().
C22_FramingRoundTrip ==
    /\ \A k \in 1..Len(pkts) : Len(pkts[k].bytes) = FrameSize(pkts[k].fields)
    /\ (rpkt # 0 /\ ~pkts[rpkt].dangling)
         => /\ Len(readBack) <= Len(pkts[rpkt].fields)
            /\ \A i \in 1..Len(readBack) :
                 /\ readBack[i].t = pkts[rpkt].fields[i].t
                 /\ readBack[i].v = pkts[rpkt].fields[i].v
            /\ pendingLen >= 0 => pendingLen = Len(NextField.v)
            /\ Len(readBack) = Len(pkts[rpkt].fields) => AtEnd

C22_Witness ==
    /\ rpkt # 0
    /\ [i \in 1..Len(pkts[rpkt].fields) |-> pkts[rpkt].fields[i].t] = ExampleTypes
    /\ pkts[rpkt].fields[2].v = HelloWorld
    /\ Len(pkts[rpkt].bytes) = 26
    /\ Len(readBack) = 4
    /\ readBack[2].v = HelloWorld
    /\ readBack[1].v = 27
    /\ AtEnd

\* C23: build() leaves the builder's size and contents as they were and
\* returns a packet holding a copy of the buffer as it was at the call; what
\* is written to or cleared from the builder afterwards does not change a
\* packet already built, and a second build() right after the first gives a
\* second packet with the same content.
C23_BuildNonDestructive ==
    /\ [][Len(pkts') > Len(pkts)
            => /\ buffer_' = buffer_
               /\ written' = written
               /\ pkts'[Len(pkts')].bytes = buffer_
               /\ \A k \in 1..Len(pkts) :
                    pkts[k].snap = buffer_ => pkts'[k].bytes = pkts'[Len(pkts')].bytes]_vars
    /\ [](\A k \in 1..Len(pkts) :
            /\ ~pkts[k].dangling
            /\ pkts[k].bytes = pkts[k].snap)

(***************************************************************************)
(* Peer claims                                                             *)
(***************************************************************************)
\* C24: a Peer whose native handle is null answers state() = disconnected,
\* endpoint() = ("", 0) and roundTripTime() = 0; send on it returns false,
\* and send, disconnect, disconnectNow, disconnectLater, ping, timeout and
\* reset on it make no Transport Engine call.
C24_NullHandleSafe ==
    /\ [](\A p \in PeerObjs :
            nativePeer_[p] = 0
              => /\ PeerStateOf(p) = "disconnected"
                 /\ IsDisconnected(p)
                 /\ PeerEndpoint(p) = [host |-> "", port |-> 0]
                 /\ PeerRoundTripTime(p) = 0)
    /\ [][(/\ lastPeerCall' # lastPeerCall
           /\ lastPeerCall'.op \in PeerRequests \cup {"send"}
           /\ nativePeer_[lastPeerCall'.peer] = 0)
            => /\ engineCalls' = engineCalls
               /\ ~lastPeerCall'.engine
               /\ ~lastPeerCall'.ret]_vars
    /\ [](\A i \in 1..Len(engineCalls) : engineCalls[i].peer # 0)

C24_Witness ==
    /\ nativePeer_[1] = 0
    /\ nativePeer_[2] = 1
    /\ lastPeerCall.peer = 1
    /\ lastPeerCall.op = "send"
    /\ ~lastPeerCall.ret
    /\ enetPeer.state = "connected"
    /\ enetPeer.roundTripTime > 0
    /\ Len(engineCalls) > 0

\* C25: while the engine's state of a peer is zombie, state() answers
\* disconnected and isDisconnected() is true.
C25_ZombieCollapses ==
    \A p \in PeerObjs :
       (nativePeer_[p] # 0 /\ enetPeer.state = "zombie")
         => /\ PeerStateOf(p) = "disconnected"
            /\ IsDisconnected(p)

(***************************************************************************)
(* Peer registry claims                                                    *)
(***************************************************************************)
\* the step of a successful host->connect(): the engine hands out a free peer
ConnectReturns(sl) ==
    /\ appPeer[sl] = 0
    /\ appPeer'[sl] # 0
    /\ \E n \in Natives : econn[n] = "free" /\ econn'[n] = "pending"

\* C26: peerCount() is the number of registry entries whose Peer is alive,
\* whatever the state of the peer: the Peer a successful connect() returns,
\* still connecting, is counted and is in getPeers() at once, and
\* peerCount() equals the length of getPeers().
C26_PeerCountCountsLive ==
    /\ [](PeerCount = Len(GetPeersResult(peers_)))
    /\ [](PeerCount = Cardinality({i \in 1..Len(peers_) : wst[peers_[i]] = "alive"}))
    /\ [][\A sl \in Slots :
            ConnectReturns(sl)
              => /\ PeerCount' = PeerCount + 1
                 /\ econn'[wNative'[appPeer'[sl]]] = "pending"
                 /\ appPeer'[sl] \in Range(GetPeersResult(peers_)')]_vars

C26_Witness ==
    /\ svc = "idle"
    /\ \E sl \in Slots :
         /\ appPeer[sl] # 0
         /\ wNative[appPeer[sl]] # 0
         /\ econn[wNative[appPeer[sl]]] = "pending"
         /\ appPeer[sl] \in Range(GetPeersResult(peers_))
    /\ PeerCount = 1
    /\ Len(peers_) > 1

\* C27: a connect() that fails, because the endpoint does not resolve or the
\* engine gives no peer, throws: no Peer is returned and the registry, the
\* wrappers and the engine's peers are as before; when the name does not
\* resolve the engine's connect is not called.
C27_ConnectFailsCleanly ==
    [][thrown' # thrown
         => /\ thrown'.what \in {ConnectError(why) : why \in ConnectFailures}
            /\ peers_' = peers_
            /\ wst' = wst
            /\ wNative' = wNative
            /\ appPeer' = appPeer
            /\ econn' = econn
            /\ thrown'.what = ConnectError("resolve") => ~thrown'.engineCalled]_vars

C27_Witness ==
    /\ thrown.what = ConnectError("resolve")
    /\ ~thrown.engineCalled
    /\ \A sl \in Slots : appPeer[sl] = 0
    /\ Len(peers_) > 0
    /\ FreeNatives # {}

\* C28: no two live Peer wrappers of a Host's registry hold the same native
\* peer handle, also after a connect() followed by the Connect event of that
\* connection.
C28_OneWrapperPerHandle ==
    \A i, j \in 1..Len(peers_) :
       (/\ i # j
        /\ wst[peers_[i]] = "alive"
        /\ wst[peers_[j]] = "alive"
        /\ wNative[peers_[i]] # 0)
         => wNative[peers_[i]] # wNative[peers_[j]]

(***************************************************************************)
(* Library claims                                                          *)
(***************************************************************************)
\* the engine calls that took effect: the successful enet_initialize calls and
\* the enet_deinitialize calls
Effective(log) == SelectSeq(log, LAMBDA c : c # "init_failed")

C29_NoLockAcrossHandlers ==
    /\ (ppc = "dispatch" /\ rop["service"].pc # "held") => peersMutex_ # "service"
    /\ \A t \in LockThreads : rop[t].pc = "lock" => peersMutex_ # t
    /\ peersMutex_ # "none" => rop[peersMutex_].pc = "held"

C29_Witness ==
    /\ ppc = "dispatch"
    /\ pev = "receive"
    /\ rop["service"] = [op |-> "scan", pc |-> "held"]
    /\ peersMutex_ = "service"
    /\ rop["app1"] = [op |-> "push", pc |-> "lock"]

(***************************************************************************)
(* Cursor movement claims                                                  *)
(***************************************************************************)
Min(a, b) == IF a < b THEN a ELSE b

\* C31: seek(p) sets position to min(p, size) and skip(n) sets position to
\* min(position + n, size), the sum taken without wrap-around, for every p
\* and n a size_t can hold; so skip never moves the cursor backwards.
C31_SeekSkipClamp ==
    /\ [][(lastRead'.op = "seek" /\ (lastRead' # lastRead \/ position_' # position_))
            => position_' = Min(lastRead'.n, Len(data_))]_vars
    /\ [][(lastRead'.op = "skip" /\ (lastRead' # lastRead \/ position_' # position_))
            => /\ position_' = Min(position_ + lastRead'.n, Len(data_))
               /\ position_' >= position_]_vars

(***************************************************************************)
(* Packet ownership claims                                                 *)
(***************************************************************************)
\* the live Packet objects that hold buffer b
Holders(b) == {p \in PktObjs : pktAlive[p] = "live" /\ nativePacket_[p] = b}

\* C32: over any sequence of Packet create, move-construct, move-assign,
\* drop, Peer::send and Host::broadcast, every buffer is held by at most one
\* live Packet object or by the engine, never both, and is destroyed at most
\* once; a move-assignment destroys the buffer the target held exactly once
\* and leaves the source empty.
C32_SingleOwner ==
    /\ [](\A b \in Bufs :
            /\ Cardinality(Holders(b)) <= 1
            /\ Holders(b) # {} => bufState[b] = "wrapped"
            /\ bufState[b] # "double")
    /\ [][(/\ lastPktOp'.op = "moveAssign"
           /\ lastPktOp' # lastPktOp \/ nativePacket_' # nativePacket_
           /\ lastPktOp'.to # lastPktOp'.from)
            => /\ nativePacket_'[lastPktOp'.from] = 0
               /\ nativePacket_'[lastPktOp'.to] = nativePacket_[lastPktOp'.from]
               /\ lastPktOp'.prev # 0
                    => /\ bufState[lastPktOp'.prev] = "wrapped"
                       /\ bufState'[lastPktOp'.prev] = "destroyed"]_vars

C32_Witness ==
    /\ lastPktOp.op = "moveAssign"
    /\ lastPktOp.to # lastPktOp.from
    /\ lastPktOp.prev # 0
    /\ bufState[lastPktOp.prev] = "destroyed"
    /\ nativePacket_[lastPktOp.to] # 0
    /\ \E b \in Bufs : bufState[b] = "wrapped"

\* C33: whenever Peer::send has returned false (null peer handle, null
\* packet, or the engine rejected the send) the buffer of the packet passed
\* in is destroyed or still has an owner that will destroy it; no created
\* buffer is ever left without an owner.
C33_NoOrphanBuffer ==
    /\ (lastPktOp.op = "send" /\ ~lastPktOp.ret /\ lastPktOp.prev # 0)
         => bufState[lastPktOp.prev] \in {"destroyed", "wrapped", "engine"}
    /\ \A b \in Bufs : bufState[b] # "unowned"

(***************************************************************************)
(* Task queue claims                                                       *)
(***************************************************************************)
\* the tasks in the order their schedule() calls pushed them: those already
\* dequeued, then those still queued
Entered == dequeued \o taskQueue_

\* C34: tasks leave taskQueue_ in the order their schedule() calls entered
\* it, whichever worker dequeues them: a schedule() call puts its task behind
\* every task that entered before, and a worker always takes the task that
\* entered first among those still queued.
C34_FifoDequeue ==
    /\ [][\A t \in Tasks :
            (spc[t] = "idle" /\ spc'[t] # "idle") => Entered' = Append(Entered, t)]_vars
    /\ [][dequeued' # dequeued
            => /\ taskQueue_ # <<>>
               /\ dequeued' = Append(dequeued, Head(taskQueue_))
               /\ taskQueue_' = Tail(taskQueue_)
               /\ Entered' = Entered]_vars

C34_Witness ==
    /\ dequeued = <<2, 1>>
    /\ \E w1, w2 \in Tids :
         /\ w1 # w2
         /\ wpc[w1] = "run" /\ wtask[w1] = 2
         /\ wpc[w2] = "run" /\ wtask[w2] = 1

\* the positions of the controlling thread inside stop() after it has cleared
\* running_
StopSignalled == {"stop_notify", "stop_join"}

\* C39: stop() leaves the task queue untouched: the tasks still queued when
\* stop() was called are neither executed during stop() nor discarded, and
\* stay queued in their order; so once stop() has cleared running_ no task
\* leaves the queue before stop() returns.
C39_NothingDequeuedDuringStop ==
    [][(cpc \in StopSignalled)
         => /\ dequeued' = dequeued
            /\ IsPrefix(taskQueue_, taskQueue_')]_vars

\* C37: the peerHandle of a dispatched Receive or Disconnect event is never a
\* wrapper whose connection had already ended before the event, i.e. one
\* retained from an earlier connection whose engine peer has been reused
C37_EventPeerIsCurrent ==
    [][(svc = "idle" /\ svc' = "dispatch" /\ ev'.type \in {"receive", "disconnect"})
         => evPeer' \notin ended]_vars

\* C35: an entry leaves peers_ only when its wrapper had expired, and no step
\* (a dispatched Disconnect event, Peer::disconnect, disconnectNow or
\* disconnectLater among them) changes the handle of a wrapper that lives on:
\* a Peer the application holds stays in getPeers() with its handle
C35_RegistryKeepsLivePeers ==
    [][/\ \A w \in Range(peers_) : w \notin Range(peers_') => wst[w] = "expired"
       /\ \A w \in Wrappers :
            (wst[w] = "alive" /\ wst'[w] = "alive") => wNative'[w] = wNative[w]]_vars

\* the application asked for a disconnect of the Peer it holds, the Disconnect
\* event of that Peer has been handed to a handler, and the Peer is still in
\* getPeers() with its handle
C35_Witness ==
    /\ svc = "dispatch"
    /\ ev.type = "disconnect"
    /\ Len(invoked) >= 1
    /\ evPeer # 0
    /\ appPeer["a"] = evPeer
    /\ lastRequest = [peer |-> evPeer, how |-> "disconnect"]
    /\ evPeer \in Range(GetPeersResult(peers_))
    /\ wNative[evPeer] = ev.peer
    /\ econn[ev.peer] = "free"

\* C36: once the Host has released its engine handle, hostHandle() of a
\* surviving Peer returns null and no other member of it uses an engine peer
\* (which belonged to the released host)
C36_SurvivingPeerSafe ==
    lastUse.released =>
        /\ ~lastUse.host
        /\ lastUse.native = 0

\* C38: the thread that runs Host::~Host is never the Host's service thread
C38_DtorOffServiceThread == dtor \notin STids

====
